---- MODULE Spec2Model ----
(***************************************************************************)
(* A model of nginx-tail (src/src/lib.rs, parsing.rs, collections.rs,      *)
(* speedometer.rs): the access-log line parser and its Display, the        *)
(* LineReader that reassembles lines from raw reads, the tailer / ticker / *)
(* consumer tasks around the bounded message bus, and the aggregation      *)
(* state of process_as_tui.                                                *)
(*                                                                         *)
(* Text is a sequence of one-character strings; Option<T> is a sequence of *)
(* length 0 (None) or 1 (Some).                                            *)
(***************************************************************************)
EXTENDS Integers, Sequences, FiniteSets, TLC

VARIABLES
    \* ---- parsing.rs: one line through parse_nginx_line and Display
    line,       \* the input handed to parse_nginx_line
    parsed,     \* the ParsedLine it returned
    shown,      \* what Display wrote for it
    ppc,        \* "input" -> "parsed" -> "shown"
    \* ---- lib.rs: one LineReader over the file at the followed path
    rfs,        \* the files: which one is at the path, and each one's bytes
    rdr,        \* the LineReader: handle, read position, pending, filename
    rstate,     \* "reading", or "failed" once a read returned Err
    rgot,       \* history: the lines returned so far, in order
    rfrom,      \* history: the read position the current handle started at
    rreopened,  \* history: whether read_lines ever replaced the handle
    rlast,      \* history: what the last call of read_lines did
    \* ---- lib.rs: process_as_tui handed one message after the other
    args,        \* its arguments, the terminal and the build
    tui,        \* its local state at the top of the loop
    plain,      \* the same with no filters, handed the same messages
    clock,        \* the clock, in milliseconds
    fed,        \* history: the number of messages handled
    counted,    \* history: the Line messages handled, per group and bucket
    last,       \* history: the message handled last
    screen,     \* history: what the terminal shows above the stats block
    passed,     \* history: the lines queued since the last flush of raw lines
    cutat,      \* history: for each pending line, cut_width when it was queued
    \* ---- lib.rs: follow, periodic_print and the consumer around the bus
    bus,        \* the channel: capacity, queued messages, closed or not
    tl,         \* per tailer: where follow() stands, its LineReader, lines to send
    fsys,       \* per tailer: the files of the path it follows
    tick,       \* periodic_print: running or not, the Prints sent
    cons,       \* the consumer: its mode, arguments and local state
    sent,       \* history: per producer, the messages it put on the bus
    recvd,      \* history: per producer, the messages the consumer took
    \* ---- speedometer.rs, collections.rs: the library types called directly
    spd,        \* a RingbufferSpeedometer and a SmootherSpeedometer fed alike
    gmap,       \* a GroupMap and the names get_or_create was called with
    xs          \* a line and what extract_statuscode made of it

parseVars == <<line, parsed, shown, ppc>>
readerVars == <<rfs, rdr, rstate, rgot, rfrom, rreopened, rlast>>
tuiVars == <<args, tui, plain, clock, fed, counted, last, screen, passed, cutat>>
busVars == <<bus, tl, fsys, tick, cons, sent, recvd>>
libVars == <<spd, gmap, xs>>

vars == <<line, parsed, shown, ppc, rfs, rdr, rstate, rgot, rfrom, rreopened, rlast,
          args, tui, plain, clock, fed, counted, last, screen, passed, cutat,
          bus, tl, fsys, tick, cons, sent, recvd, spd, gmap, xs>>

----------------------------------------------------------------------------
(* Options and text *)

None == <<>>
Some(x) == <<x>>
IsSome(o) == Len(o) = 1
Unwrap(o) == o[1]

\* s[i..j], empty when j < i
Sub(s, i, j) == IF j < i THEN <<>> ELSE SubSeq(s, i, j)

\* All sequences over alphabet A of length at most n
RECURSIVE StrUpTo(_, _)
StrUpTo(A, n) ==
    IF n = 0 THEN {<<>>}
    ELSE LET shorter == StrUpTo(A, n - 1)
         IN shorter \cup {Append(s, c) : s \in {t \in shorter : Len(t) = n - 1}, c \in A}

\* Concatenation of a sequence of sequences
RECURSIVE Flatten(_)
Flatten(ss) == IF ss = <<>> THEN <<>> ELSE Head(ss) \o Flatten(Tail(ss))

----------------------------------------------------------------------------
(* terminal.rs: colours *)

GREEN  == "ESC[32m"
PURPLE == "ESC[35m"
YELLOW == "ESC[33m"
RED    == "ESC[31m"
WHITE  == "ESC[1ESC[37m"
ORANGE == "ESC[93m"
RESET  == "ESC[0m"
NOCOLOR == ""

ColorCodes == {GREEN, PURPLE, YELLOW, RED, WHITE, ORANGE, RESET}

\* One colour escape sequence as written into the output: a single element,
\* nothing at all for the empty colour
Esc(color) == IF color = NOCOLOR THEN <<>> ELSE <<color>>

----------------------------------------------------------------------------
(* parsing.rs: parse_nginx_line *)

EmptyParsed ==
    [head |-> <<>>, head_date |-> None, date |-> <<>>, date_method |-> None,
     method |-> <<>>, method_url |-> None, url |-> <<>>, url_lvl |-> None,
     protocollvl |-> <<>>, lvl_statuscode |-> None, statuscode |-> <<>>,
     tail |-> <<>>]

\* The position of the first d in s at or after i, 0 when there is none:
\* where a `loop { match chars.next() { Some(d) => break, ... } }` stops
RECURSIVE Find(_, _, _)
Find(s, i, d) ==
    IF i > Len(s) THEN 0
    ELSE IF s[i] = d THEN i
    ELSE Find(s, i + 1, d)

\* `tail.extend(chars)` with the iterator standing before position i
TailExtend(p, s, i) == [p EXCEPT !.tail = p.tail \o Sub(s, i, Len(s))]

\* `Some(x) => { tail.push(x); break 'outer }`: the character at i that broke
\* the expectation goes to tail, then the rest follows it
TailPushBreakLose(p, s, i) == TailExtend(p, s, i + 1)
TailPushBreak(p, s, i) == TailExtend([p EXCEPT !.tail = Append(p.tail, s[i])], s, i + 1)

\* lines 110-120: the status code, up to the next space
ScanStatuscode(p, s, i) ==
    LET e == Find(s, i, " ")
    IN IF e = 0
       THEN [p EXCEPT !.statuscode = Sub(s, i, Len(s))]
       ELSE TailExtend([p EXCEPT !.statuscode = Sub(s, i, e - 1), !.tail = <<" ">>],
                       s, e + 1)

\* lines 101-109: after the quote that closes the request, a space is expected
AfterLvl(p, s, i) ==
    LET q == [p EXCEPT !.lvl_statuscode = Some(<<"\"">>)]
    IN IF i > Len(s) THEN q
       ELSE IF s[i] = " "
       THEN ScanStatuscode([q EXCEPT !.lvl_statuscode = Some(<<"\"", " ">>)], s, i + 1)
       ELSE TailPushBreak(q, s, i)

\* lines 94-100: the protocol level, up to the closing quote
ScanProtocollvl(p, s, i) ==
    LET e == Find(s, i, "\"")
    IN IF e = 0
       THEN [p EXCEPT !.protocollvl = Sub(s, i, Len(s))]
       ELSE AfterLvl([p EXCEPT !.protocollvl = Sub(s, i, e - 1)], s, e + 1)

\* lines 86-93: the url, up to the next space
ScanUrl(p, s, i) ==
    LET e == Find(s, i, " ")
    IN IF e = 0
       THEN [p EXCEPT !.url = Sub(s, i, Len(s))]
       ELSE ScanProtocollvl([p EXCEPT !.url = Sub(s, i, e - 1),
                                      !.url_lvl = Some(<<" ">>)], s, e + 1)

\* lines 78-85: the method, up to the next space
ScanMethod(p, s, i) ==
    LET e == Find(s, i, " ")
    IN IF e = 0
       THEN [p EXCEPT !.method = Sub(s, i, Len(s))]
       ELSE ScanUrl([p EXCEPT !.method = Sub(s, i, e - 1),
                              !.method_url = Some(<<" ">>)], s, e + 1)

\* lines 69-76: everything up to the opening quote is pushed onto date_method
ScanDateMethod(p, s, i) ==
    LET e == Find(s, i, "\"")
        sep == Unwrap(p.date_method)
    IN IF e = 0
       THEN [p EXCEPT !.date_method = Some(sep \o Sub(s, i, Len(s)))]
       ELSE ScanMethod([p EXCEPT !.date_method = Some(sep \o Sub(s, i, e))], s, e + 1)

\* lines 59-67: after the bracket that closes the date, a space is expected
AfterDateLeavesNone(p, s, i) ==
    IF i > Len(s) THEN p
    ELSE IF s[i] = " "
    THEN ScanDateMethod([p EXCEPT !.date_method = Some(<<"]", " ">>)], s, i + 1)
    ELSE TailPushBreak(p, s, i)
AfterDate(p, s, i) ==
    LET q == [p EXCEPT !.date_method = Some(<<"]">>)]
    IN IF i > Len(s) THEN q
       ELSE IF s[i] = " "
       THEN ScanDateMethod([q EXCEPT !.date_method = Some(<<"]", " ">>)], s, i + 1)
       ELSE TailPushBreak(q, s, i)

\* lines 50-58: the date, up to the closing bracket
ScanDate(p, s, i) ==
    LET e == Find(s, i, "]")
    IN IF e = 0
       THEN [p EXCEPT !.date = Sub(s, i, Len(s))]
       ELSE AfterDate([p EXCEPT !.date = Sub(s, i, e - 1)], s, e + 1)

\* lines 43-49: the head, up to the opening bracket
ScanHead(p, s, i) ==
    LET e == Find(s, i, "[")
    IN IF e = 0
       THEN [p EXCEPT !.head = Sub(s, i, Len(s))]
       ELSE ScanDate([p EXCEPT !.head = Sub(s, i, e - 1),
                               !.head_date = Some(<<"[">>)], s, e + 1)

parse_nginx_line(s) == ScanHead(EmptyParsed, s, 1)

----------------------------------------------------------------------------
(* parsing.rs: code2color and Display for ParsedLine *)

POST == <<"P", "O", "S", "T">>

code2color(code) ==
    IF code = <<>> THEN <<NOCOLOR, NOCOLOR>>
    ELSE IF code[1] = "2" THEN <<GREEN, RESET>>
    ELSE IF code[1] = "3" THEN <<PURPLE, RESET>>
    ELSE IF code[1] = "4" THEN <<YELLOW, RESET>>
    ELSE IF code[1] = "5" THEN <<RED, RESET>>
    ELSE <<WHITE, RESET>>

\* the colour of the method
methodcolor(method) ==
    IF method = POST THEN <<WHITE, RESET>> ELSE <<NOCOLOR, NOCOLOR>>

\* unwrap_or_print_tail_then_return_ok: the text written from a separator on,
\* `rest` being what is written when the separator is present
FromSepForgetTail(p, sep, rest) == IF IsSome(sep) THEN rest ELSE <<>>
FromSep(p, sep, rest) == IF IsSome(sep) THEN rest ELSE p.tail

fmt(p) ==
    LET mc == methodcolor(p.method)
        sc == code2color(p.statuscode)
        from_lvl_statuscode ==
            FromSep(p, p.lvl_statuscode,
                    Unwrap(p.lvl_statuscode) \o Esc(sc[1]) \o p.statuscode
                        \o Esc(sc[2]) \o p.tail)
        from_url_lvl ==
            FromSep(p, p.url_lvl,
                    Unwrap(p.url_lvl) \o p.protocollvl \o from_lvl_statuscode)
        from_method_url ==
            FromSep(p, p.method_url,
                    Unwrap(p.method_url) \o p.url \o from_url_lvl)
        from_date_method ==
            FromSep(p, p.date_method,
                    Unwrap(p.date_method) \o Esc(mc[1]) \o p.method \o Esc(mc[2])
                        \o from_method_url)
        from_head_date ==
            FromSep(p, p.head_date,
                    Unwrap(p.head_date) \o p.date \o from_date_method)
    IN p.head \o from_head_date

----------------------------------------------------------------------------
(* The lines the parser is run on *)

MaxLineLen == 5

ParseAlphabet == {"[", "]", " ", "\"", "2", "a"}

\* Full access-log lines in the shapes of the tests of parsing.rs: the usual
\* one, one with text between the date and the request, one without the
\* space after the date, one with a one-digit status code
FullLines ==
    { <<"a", " ", "[", "d", "]", " ", "\"", "P", "O", "S", "T", " ", "/", "u",
        " ", "H", "\"", " ", "2", "0", "0", " ", "9">>,
      <<"[", "d", "]", " ", "x", " ", "\"", "G", "E", "T", " ", "/", "u", " ",
        "H", "\"", " ", "4", "0", "4", " ", "9">>,
      <<"a", " ", "[", "d", "]", "\"", "G", "E", "T", " ", "/", " ", "H", "\"",
        " ", "5", "0", "0", " ", "9">>,
      <<"[", "d", "]", " ", "\"", "G", " ", "/", " ", "H", "\"", "3", " ">>,
      <<"[", "d", "]", " ", "\"", "G", " ", "/", " ", "H", "\"", " ", "3", " ">> }

Truncations == UNION {{Sub(t, 1, k) : k \in 0..Len(t)} : t \in FullLines}

ParseInputs == StrUpTo(ParseAlphabet, MaxLineLen) \cup Truncations

ParseIdle ==
    /\ line = <<>>
    /\ parsed = EmptyParsed
    /\ shown = <<>>
    /\ ppc = "idle"

\* let p = parse_nginx_line(&line)
ParseLine ==
    /\ ppc = "input"
    /\ parsed' = parse_nginx_line(line)
    /\ ppc' = "parsed"
    /\ UNCHANGED <<line, shown>>
    /\ UNCHANGED <<readerVars, tuiVars, busVars, libVars>>

\* format!("{}", p)
FormatLine ==
    /\ ppc = "parsed"
    /\ shown' = fmt(parsed)
    /\ ppc' = "shown"
    /\ UNCHANGED <<line, parsed>>
    /\ UNCHANGED <<readerVars, tuiVars, busVars, libVars>>

ParseNext == ParseLine \/ FormatLine

----------------------------------------------------------------------------
(* lib.rs: bytes, files and String::from_utf8_lossy *)

NL == "\n"

\* Bytes: ASCII bytes are written as their character; "C3" is the lead byte
\* and "A9" the continuation byte of the two-byte sequence for U+00E9
LeadByte == "C3"
ContByte == "A9"
EAcute == "U+00E9"
Replacement == "U+FFFD"

\* String::from_utf8_lossy: valid sequences decode, every byte that starts no
\* valid sequence becomes U+FFFD
RECURSIVE from_utf8_lossy(_)
from_utf8_lossy(b) ==
    IF b = <<>> THEN <<>>
    ELSE IF b[1] = LeadByte
    THEN IF Len(b) >= 2 /\ b[2] = ContByte
         THEN <<EAcute>> \o from_utf8_lossy(Sub(b, 3, Len(b)))
         ELSE <<Replacement>> \o from_utf8_lossy(Tail(b))
    ELSE IF b[1] = ContByte
    THEN <<Replacement>> \o from_utf8_lossy(Tail(b))
    ELSE <<b[1]>> \o from_utf8_lossy(Tail(b))

\* The files of one followed path: `at` is the file the path names now (0:
\* none), `data[f]` the bytes of file f. A rotated file keeps its number.
NewFs(bytes) == [at |-> 1, data |-> <<bytes>>]

FsAppend(fs, f, b) == [fs EXCEPT !.data[f] = Append(@, b)]
FsMoveAway(fs) == [fs EXCEPT !.at = 0]
FsCreate(fs) == [at |-> Len(fs.data) + 1, data |-> Append(fs.data, <<>>)]

----------------------------------------------------------------------------
(* lib.rs: LineReader *)

ReadBufLen == 1024

\* LineReader::_open_file: open the path and seek to the end of the file.
\* `ok` is whether open and seek succeed when the path names a file.
_open_file(fs, ok) ==
    IF fs.at # 0 /\ ok
    THEN Some([handle |-> fs.at, pos |-> Len(fs.data[fs.at])])
    ELSE None

\* LineReader::new, given what _open_file returned; `canonical` is whether
\* `filename` is the path the kernel reports for the open file
LineReaderNew(opened, canonical) ==
    [handle |-> opened.handle, pos |-> opened.pos, pending |-> <<>>,
     canonical |-> canonical]

\* read_link(fd_path) == filename: the handle's file is still the one at the
\* path, and the path was given in the form /proc/self/fd reports it
SamePath(r, fs) == r.canonical /\ fs.at = r.handle

\* The bytes of the handle's file that were not read yet
Unread(r, fs) == Len(fs.data[r.handle]) - r.pos

\* positions of the newline bytes of p at or after i, ascending
RECURSIVE NewlinesFrom(_, _)
NewlinesFrom(p, i) ==
    IF i > Len(p) THEN <<>>
    ELSE IF p[i] = NL THEN <<i>> \o NewlinesFrom(p, i + 1)
    ELSE NewlinesFrom(p, i + 1)

\* self.pending.drain(..start_of_next), start being the first position kept
DrainNothing(p, start) == p
Drain(p, start) == Sub(p, start, Len(p))

\* lines 159-172: `for newline in newlines`: one line per newline, returning
\* early with pending cleared when the last newline is the last byte
RECURSIVE ForNewlines(_, _, _, _)
ForNewlines(p, newlines, start, whole_lines) ==
    IF newlines = <<>>
    THEN [pending |-> Drain(p, start), lines |-> whole_lines]
    ELSE LET newline == Head(newlines)
             pushed == Append(whole_lines, from_utf8_lossy(Sub(p, start, newline - 1)))
         IN IF newline = Len(p)
            THEN [pending |-> <<>>, lines |-> pushed]
            ELSE ForNewlines(p, Tail(newlines), newline + 1, pushed)

\* read_lines, Ok(n) with n > 0 (lines 144-173)
ReadSome(r, fs, n) ==
    LET readbuf == Sub(fs.data[r.handle], r.pos + 1, r.pos + n)
        pending == r.pending \o readbuf
        cut == ForNewlines(pending, NewlinesFrom(pending, 1), 1, <<>>)
    IN [reader |-> [r EXCEPT !.pos = r.pos + n, !.pending = cut.pending],
        lines |-> cut.lines, did |-> "read"]

\* read_lines, Ok(0), with pending cleared before the path is opened
ReadZeroClearsFirst(r, fs, ok) ==
    IF ~SamePath(r, fs)
    THEN LET opened == _open_file(fs, ok)
         IN IF IsSome(opened)
            THEN [reader |-> [r EXCEPT !.handle = Unwrap(opened).handle,
                                       !.pos = Unwrap(opened).pos,
                                       !.pending = <<>>],
                  lines |-> <<>>, did |-> "reopened"]
            ELSE [reader |-> [r EXCEPT !.pending = <<>>],
                  lines |-> <<>>, did |-> "reopen failed"]
    ELSE [reader |-> r, lines |-> <<>>, did |-> "slept"]

\* read_lines, Ok(0) (lines 124-143): reopen when the handle no longer
\* resolves to the filename, sleep when it does
ReadZero(r, fs, ok) ==
    IF ~SamePath(r, fs)
    THEN LET opened == _open_file(fs, ok)
         IN IF IsSome(opened)
            THEN [reader |-> [r EXCEPT !.handle = Unwrap(opened).handle,
                                       !.pos = Unwrap(opened).pos,
                                       !.pending = <<>>],
                  lines |-> <<>>, did |-> "reopened"]
            ELSE [reader |-> r, lines |-> <<>>, did |-> "reopen failed"]
    ELSE [reader |-> r, lines |-> <<>>, did |-> "slept"]

\* read_lines returning Ok: the read returns n bytes, 0 exactly at the end
ReadLinesOk(r, fs, n, ok) ==
    IF n = 0 THEN ReadZero(r, fs, ok) ELSE ReadSome(r, fs, n)

\* How many bytes one read may return
ReadSizes(r, fs) ==
    IF Unread(r, fs) = 0 THEN {0}
    ELSE {n \in 1..Unread(r, fs) : n <= ReadBufLen}

----------------------------------------------------------------------------
(* Rust's String and integer operations *)

\* Code points of the characters the model's text is made of. String's Ord
\* compares UTF-8 bytes, which orders text as its code points do.
CodePoint(c) ==
    CASE c = NL -> 10
      [] c = " " -> 32
      [] c = "\"" -> 34
      [] c = "." -> 46
      [] c = "/" -> 47
      [] c = "0" -> 48
      [] c = "2" -> 50
      [] c = "3" -> 51
      [] c = "4" -> 52
      [] c = "5" -> 53
      [] c = "9" -> 57
      [] c = "E" -> 69
      [] c = "G" -> 71
      [] c = "H" -> 72
      [] c = "O" -> 79
      [] c = "P" -> 80
      [] c = "S" -> 83
      [] c = "T" -> 84
      [] c = "[" -> 91
      [] c = "]" -> 93
      [] c = "a" -> 97
      [] c = "b" -> 98
      [] c = "c" -> 99
      [] c = "d" -> 100
      [] c = "g" -> 103
      [] c = "l" -> 108
      [] c = "o" -> 111
      [] c = "u" -> 117
      [] c = "x" -> 120
      [] c = EAcute -> 233
      [] c = Replacement -> 65533

\* The number of bytes of a character in UTF-8
Utf8Len(c) ==
    IF CodePoint(c) < 128 THEN 1
    ELSE IF CodePoint(c) < 2048 THEN 2
    ELSE 3

\* str::len: the length in bytes
RECURSIVE StrLen(_)
StrLen(s) == IF s = <<>> THEN 0 ELSE Utf8Len(s[1]) + StrLen(Tail(s))

\* s.chars().nth(i) and s.chars().nth_back(i), i counted from 0
CharsNth(s, i) == IF i < Len(s) THEN Some(s[i + 1]) ELSE None
CharsNthBack(s, i) == IF i < Len(s) THEN Some(s[Len(s) - i]) ELSE None

\* The number of characters of s whose bytes end at byte offset k exactly,
\* -1 when k is inside a character or past the end: k is a char boundary
\* exactly when this is not -1
RECURSIVE CharsBefore(_, _)
CharsBefore(s, k) ==
    LET More(rest) == IF rest = -1 THEN -1 ELSE rest + 1
    IN IF k = 0 THEN 0
       ELSE IF s = <<>> THEN -1
       ELSE IF k < Utf8Len(s[1]) THEN -1
       ELSE More(CharsBefore(Tail(s), k - Utf8Len(s[1])))

\* a < b for String's Ord
RECURSIVE StrLess(_, _)
StrLess(a, b) ==
    IF b = <<>> THEN FALSE
    ELSE IF a = <<>> THEN TRUE
    ELSE IF a[1] # b[1] THEN CodePoint(a[1]) < CodePoint(b[1])
    ELSE StrLess(Tail(a), Tail(b))

\* str::starts_with
StartsWith(s, prefix) ==
    Len(prefix) <= Len(s) /\ Sub(s, 1, Len(prefix)) = prefix

\* usize values: a number that wrapped below zero (a release build) is kept
\* as the negative number it is congruent to modulo 2^64, and compares above
\* every number that did not wrap
UsizeLess(a, b) ==
    IF a < 0 THEN b < 0 /\ a < b
    ELSE b < 0 \/ a < b

UsizeMax(a, b) == IF UsizeLess(a, b) THEN b ELSE a

\* a - b on usize: fails in a debug build when it would go below zero
\* (overflow checks), wraps in a release build
UsizeSub(debug, a, b) ==
    IF debug /\ a >= 0 /\ b >= 0 /\ a < b
    THEN [ok |-> FALSE, val |-> 0]
    ELSE [ok |-> TRUE, val |-> a - b]

----------------------------------------------------------------------------
(* speedometer.rs: RingbufferSpeedometer *)

RingCapacity == 5

RingNew == <<>>

\* add_measurement on a ring of the given capacity: the oldest sample leaves
\* when the ring is full
RingPushKeepOldest(capacity, ring, duration, msgs) ==
    IF Len(ring) = capacity THEN ring
    ELSE Append(ring, [duration |-> duration, msgs |-> msgs])
RingPush(capacity, ring, duration, msgs) ==
    LET Pushed(kept) == Append(kept, [duration |-> duration, msgs |-> msgs])
    IN Pushed(IF Len(ring) = capacity THEN Tail(ring) ELSE ring)

\* add_measurement on the ring of a StatusStats
RingAddMeasurement(ring, duration, msgs) == RingPush(RingCapacity, ring, duration, msgs)

\* f32 values: the finite ones as fractions in lowest terms, NaN, infinity
RECURSIVE Gcd(_, _)
Gcd(a, b) == IF b = 0 THEN a ELSE Gcd(b, a % b)

Rat(num, den) ==
    LET Reduced(g) == [kind |-> "finite", num |-> num \div g, den |-> den \div g]
    IN Reduced(Gcd(num, den))
NaN == [kind |-> "nan", num |-> 0, den |-> 0]
Infinity == [kind |-> "inf", num |-> 1, den |-> 0]

\* a as f32 / b as f32, for unsigned a and b
F32Div(a, b) ==
    IF b # 0 THEN Rat(a, b)
    ELSE IF a = 0 THEN NaN ELSE Infinity

RatMul(x, y) ==
    LET Crossed(g, h) ==
            Rat((x.num \div g) * (y.num \div h), (x.den \div h) * (y.den \div g))
    IN Crossed(Gcd(x.num, y.den), Gcd(y.num, x.den))

RatAdd(x, y) ==
    LET Over(g) == Rat(x.num * (y.den \div g) + y.num * (x.den \div g),
                       (x.den \div g) * y.den)
    IN Over(Gcd(x.den, y.den))

\* 1.0 - factor, for a factor between 0 and 1
OneMinus(x) == Rat(x.den - x.num, x.den)

\* RingbufferSpeedometer::new: both assertions; `allocated` is the capacity
\* VecDeque::with_capacity made, which is at least the one asked for
RingbufferNew(capacity, allocated) ==
    IF capacity > 0 /\ allocated = capacity
    THEN [pc |-> "run", capacity |-> capacity, measurements |-> <<>>]
    ELSE [pc |-> "panicked", capacity |-> capacity, measurements |-> <<>>]

RECURSIVE RingSum(_, _)
RingSum(ring, field) ==
    IF ring = <<>> THEN 0 ELSE ring[1][field] + RingSum(Tail(ring), field)

\* RingbufferSpeedometer::get_speed
RingGetSpeed(ring) ==
    IF ring = <<>> THEN Rat(0, 1)
    ELSE F32Div(RingSum(ring, "msgs") * 1000, RingSum(ring, "duration"))

\* SmootherSpeedometer::new
SmootherNew(smooth_factor) == [speed |-> Rat(0, 1), smooth_factor |-> smooth_factor]

\* SmootherSpeedometer::add_measurement
SmootherAddUnguarded(s, duration, msgs) ==
    LET Smoothed(new_speed) ==
            [s EXCEPT !.speed =
                IF new_speed.kind # "finite" THEN new_speed
                ELSE RatAdd(RatMul(s.smooth_factor, new_speed),
                            RatMul(OneMinus(s.smooth_factor), s.speed))]
    IN Smoothed(F32Div(msgs * 1000, duration))
SmootherAddInstant(s, duration, msgs) ==
    LET Smoothed(new_speed) ==
            IF new_speed.kind = "nan" THEN s
            ELSE IF new_speed.kind = "inf" THEN s
            ELSE [s EXCEPT !.speed = new_speed]
    IN Smoothed(F32Div(msgs * 1000, duration))
SmootherAdd(s, duration, msgs) ==
    LET Smoothed(new_speed) ==
            IF new_speed.kind = "nan" THEN s
            ELSE IF new_speed.kind = "inf" THEN s
            ELSE [s EXCEPT !.speed = RatAdd(RatMul(s.smooth_factor, new_speed),
                                            RatMul(OneMinus(s.smooth_factor), s.speed))]
    IN Smoothed(F32Div(msgs * 1000, duration))

\* Neither the speedometers nor the GroupMap of the library specifications
\* have been constructed
LibIdle == spd = [pc |-> "idle"] /\ gmap = [pc |-> "idle"] /\ xs = [pc |-> "idle"]

----------------------------------------------------------------------------
(* collections.rs: StatusStats, GroupStats, GroupMap *)

\* Instants are milliseconds on the clock `now`
StatusStatsNew(statuscode, now) ==
    [statuscode |-> statuscode, start |-> now, pending |-> 0, ring |-> RingNew]

\* process that leaves the pending count as it is
StatusStatsProcessKeepsPending(st, now) ==
    IF now - st.start = 0 THEN st
    ELSE [st EXCEPT !.ring = RingAddMeasurement(st.ring, now - st.start, st.pending),
                    !.start = now]

\* StatusStats::process
StatusStatsProcess(st, now) ==
    LET elapsed == now - st.start
    IN IF elapsed = 0 THEN st
       ELSE [st EXCEPT !.ring = RingAddMeasurement(st.ring, elapsed, st.pending),
                       !.start = now,
                       !.pending = 0]

\* Vec<String>::sort, by insertion
RECURSIVE SortStrInsert(_, _)
SortStrInsert(sorted, x) ==
    IF sorted = <<>> THEN <<x>>
    ELSE IF StrLess(x, sorted[Len(sorted)])
    THEN Append(SortStrInsert(Sub(sorted, 1, Len(sorted) - 1), x), sorted[Len(sorted)])
    ELSE Append(sorted, x)

RECURSIVE SortStr(_)
SortStr(v) ==
    IF v = <<>> THEN <<>>
    ELSE SortStrInsert(SortStr(Sub(v, 1, Len(v) - 1)), v[Len(v)])

\* self.stats left as pushed
StatsAsPushed(v) == v

\* Vec<StatusStats>::sort (stable): StatusStats are ordered by statuscode
RECURSIVE SortStatsInsert(_, _)
SortStatsInsert(sorted, x) ==
    IF sorted = <<>> THEN <<x>>
    ELSE IF StrLess(x.statuscode, sorted[Len(sorted)].statuscode)
    THEN Append(SortStatsInsert(Sub(sorted, 1, Len(sorted) - 1), x), sorted[Len(sorted)])
    ELSE Append(sorted, x)

RECURSIVE SortStats(_)
SortStats(v) ==
    IF v = <<>> THEN <<>>
    ELSE SortStatsInsert(SortStats(Sub(v, 1, Len(v) - 1)), v[Len(v)])

\* Vec::dedup: consecutive equal elements collapse
RECURSIVE Dedup(_)
Dedup(v) ==
    IF Len(v) < 2 THEN v
    ELSE IF v[1] = v[2] THEN Dedup(Tail(v))
    ELSE <<v[1]>> \o Dedup(Tail(v))

\* stats.iter().position(|x| x.statuscode == statuscode): 0 when none
RECURSIVE PositionOfCode(_, _, _)
PositionOfCode(stats, i, statuscode) ==
    IF i > Len(stats) THEN 0
    ELSE IF stats[i].statuscode = statuscode THEN i
    ELSE PositionOfCode(stats, i + 1, statuscode)

\* stats.iter().position(|x| x.group == tag): 0 when none
PositionOfGroupNone(stats, i, tag) == 0
RECURSIVE PositionOfGroup(_, _, _)
PositionOfGroup(stats, i, tag) ==
    IF i > Len(stats) THEN 0
    ELSE IF stats[i].group = tag THEN i
    ELSE PositionOfGroup(stats, i + 1, tag)

GroupStatsNew(group) == [group |-> group, stats |-> <<>>]

\* The StatusStats that get_or_create hands back for a new code: the element
\* that is last after the sort
CreatedIndex(stats, statuscode) == Len(stats)

\* GroupStats::get_or_create: the group afterwards, the global list of codes
\* afterwards, and the index of the StatusStats the caller gets
GroupStatsGetOrCreate(gs, global, statuscode, now) ==
    LET Created(stats) ==
            [gs |-> [gs EXCEPT !.stats = stats],
             global |-> Dedup(SortStr(Append(global, statuscode))),
             index |-> CreatedIndex(stats, statuscode)]
        At(index) ==
            IF index # 0 THEN [gs |-> gs, global |-> global, index |-> index]
            ELSE Created(SortStats(Append(gs.stats, StatusStatsNew(statuscode, now))))
    IN At(PositionOfCode(gs.stats, 1, statuscode))

\* GroupStats::process
GroupStatsProcess(gs, now) ==
    [gs EXCEPT !.stats = [i \in 1..Len(gs.stats) |->
                             StatusStatsProcess(gs.stats[i], now)]]

GroupMapNew == [stats |-> <<>>, shared_prefix |-> <<>>, shared_suffix |-> <<>>]

MinTextLeft == 8

\* lines 147-152: the inner loop over the tags for character i; it also
\* raises max_tag_length for the tags it visits
RECURSIVE PrefixInner(_, _, _, _)
PrefixInner(tags, k, i, max_tag_length) ==
    LET Compare(max) ==
            IF CharsNth(tags[k], i) # CharsNth(tags[1], i)
            THEN [broke |-> TRUE, max |-> max]
            ELSE PrefixInner(tags, k + 1, i, max)
    IN IF k > Len(tags) THEN [broke |-> FALSE, max |-> max_tag_length]
       ELSE Compare(IF StrLen(tags[k]) > max_tag_length
                    THEN StrLen(tags[k]) ELSE max_tag_length)

\* lines 146-155: the shared prefix, and max_tag_length as a side product
RECURSIVE PrefixLoop(_, _, _, _)
PrefixLoop(tags, i, prefix, max_tag_length) ==
    LET Push(inner, char) ==
            IF inner.broke
            THEN [ok |-> TRUE, prefix |-> prefix, max |-> inner.max]
            ELSE IF ~IsSome(char)
            THEN [ok |-> FALSE, prefix |-> prefix, max |-> inner.max]  \* unwrap of None
            ELSE PrefixLoop(tags, i + 1, Append(prefix, Unwrap(char)), inner.max)
    IN IF i >= StrLen(tags[1])
       THEN [ok |-> TRUE, prefix |-> prefix, max |-> max_tag_length]
       ELSE Push(PrefixInner(tags, 1, i, max_tag_length), CharsNth(tags[1], i))

\* lines 157-165: the shared suffix
RECURSIVE SuffixLoop(_, _, _)
SuffixLoop(tags, i, suffix) ==
    LET Insert(char) ==
            IF \E k \in 1..Len(tags) : CharsNthBack(tags[k], i) # char
            THEN [ok |-> TRUE, suffix |-> suffix]
            ELSE IF ~IsSome(char)
            THEN [ok |-> FALSE, suffix |-> suffix]                     \* unwrap of None
            ELSE SuffixLoop(tags, i + 1, <<Unwrap(char)>> \o suffix)
    IN IF i >= StrLen(tags[1])
       THEN [ok |-> TRUE, suffix |-> suffix]
       ELSE Insert(CharsNthBack(tags[1], i))

\* &s[..k]: fails when k is past the end or inside a character
SliceFrom(s, k) ==
    LET Cut(chars) ==
            IF chars = -1 THEN [ok |-> FALSE, val |-> <<>>]
            ELSE [ok |-> TRUE, val |-> Sub(s, chars + 1, Len(s))]
    IN IF k < 0 THEN [ok |-> FALSE, val |-> <<>>] ELSE Cut(CharsBefore(s, k))
SliceTo(s, k) ==
    LET Cut(chars) ==
            IF chars = -1 THEN [ok |-> FALSE, val |-> <<>>]
            ELSE [ok |-> TRUE, val |-> Sub(s, 1, chars)]
    IN IF k < 0 THEN [ok |-> FALSE, val |-> <<>>] ELSE Cut(CharsBefore(s, k))

\* lines 167-180: keep at least 8 bytes of text by shortening the prefix
TrimShared(debug, gm, prefix, suffix, max_tag_length) ==
    LET failed == [ok |-> FALSE, gm |-> gm]
        Shared(p) ==
            [ok |-> TRUE, gm |-> [gm EXCEPT !.shared_prefix = p, !.shared_suffix = suffix]]
        Sliced(cut) == IF ~cut.ok THEN failed ELSE Shared(cut.val)
        \* diff: shared_prefix.len() - chars_to_preserve
        CutFromPrefix(diff) ==
            IF ~diff.ok THEN failed ELSE Sliced(SliceTo(prefix, UsizeMax(0, diff.val)))
        TextLeft(text_left) ==
            IF ~text_left.ok THEN failed
            ELSE IF ~UsizeLess(text_left.val, MinTextLeft) THEN Shared(prefix)
            ELSE IF max_tag_length < MinTextLeft
            THEN [ok |-> TRUE, gm |-> [gm EXCEPT !.shared_prefix = <<>>,
                                                 !.shared_suffix = <<>>]]
            ELSE CutFromPrefix(UsizeSub(debug, StrLen(prefix),
                                        MinTextLeft - text_left.val))
        LessPrefix(d1) ==
            IF ~d1.ok THEN failed ELSE TextLeft(UsizeSub(debug, d1.val, StrLen(suffix)))
    IN LessPrefix(UsizeSub(debug, max_tag_length, StrLen(prefix)))

\* GroupMap::update_trimmed_tags; ok is FALSE when it panics
UpdateTrimmedTags(debug, gm) ==
    LET Trim(pre, suf) ==
            IF ~pre.ok \/ ~suf.ok THEN [ok |-> FALSE, gm |-> gm]
            ELSE TrimShared(debug, gm, pre.prefix, suf.suffix, pre.max)
        Of(tags) == Trim(PrefixLoop(tags, 0, <<>>, 0), SuffixLoop(tags, 0, <<>>))
    IN IF Len(gm.stats) < 2 THEN [ok |-> TRUE, gm |-> gm]
       ELSE Of([k \in 1..Len(gm.stats) |-> gm.stats[k].group])

\* GroupMap::get_or_create: ok (FALSE: it panicked), the map afterwards and
\* the index of the group the caller gets
GroupMapGetOrCreate(debug, gm, tag) ==
    LET Pushed(updated, index) == [ok |-> updated.ok, gm |-> updated.gm, index |-> index]
        At(index) ==
            IF index # 0 THEN [ok |-> TRUE, gm |-> gm, index |-> index]
            ELSE Pushed(UpdateTrimmedTags(debug,
                            [gm EXCEPT !.stats = Append(@, GroupStatsNew(tag))]),
                        Len(gm.stats) + 1)
    IN At(PositionOfGroup(gm.stats, 1, tag))

----------------------------------------------------------------------------
(* lib.rs: classifying a line *)

\* get_statuscode_class: "404" becomes "4xx"; nothing for the empty code
get_statuscode_class(statuscode) ==
    IF statuscode = <<>> THEN None ELSE Some(<<statuscode[1], "x", "x">>)

\* The extractor that keeps the exact code
exact_statuscode(statuscode) == Some(statuscode)

Extract(extractor, statuscode) ==
    IF extractor = "class" THEN get_statuscode_class(statuscode)
    ELSE exact_statuscode(statuscode)

\* The byte offset at which the character at position i (from 1) starts
ByteOffset(s, i) == StrLen(Sub(s, 1, i - 1))

\* extract_statuscode. panic: a slice cut inside a character; ok: Ok(val),
\* otherwise Err(val)
extract_statuscode(s) ==
    LET Err(e) == [panic |-> FALSE, ok |-> FALSE, val |-> e]
        UpTo(rest, end_space) ==
            IF end_space = 0 THEN Err(<<"?", "C">>)
            ELSE [panic |-> FALSE, ok |-> TRUE, val |-> Sub(rest, 1, end_space - 1)]
        CodeIn(rest) == UpTo(rest, Find(rest, 1, " "))
        After(skipped) ==
            IF skipped = -1 THEN [panic |-> TRUE, ok |-> FALSE, val |-> <<>>]
            ELSE CodeIn(Sub(s, skipped + 1, Len(s)))
        From(from) ==
            IF StrLen(s) < from THEN Err(<<"?", "E">>)
            ELSE After(CharsBefore(s, from))
        Second(first_quote, q2) ==
            IF q2 = 0 THEN Err(<<"?", "B">>)
            ELSE From(first_quote + 1 + (ByteOffset(s, q2) - (first_quote + 1)) + 2)
        First(q1, first_quote) ==
            IF StrLen(s) < first_quote + 1 THEN Err(<<"?", "D">>)
            ELSE Second(first_quote, Find(s, q1 + 1, "\""))
        Quote(q1) ==
            IF q1 = 0 THEN Err(<<"?", "A">>) ELSE First(q1, ByteOffset(s, q1))
    IN Quote(Find(s, 1, "\""))

\* Message::Line as follow() builds it from a line (lines 200-211)
LineMessage(text, updowngroup, extractor) ==
    LET Built(statuscode) ==
            [type |-> "Line", text |-> text, updowngroup |-> updowngroup,
             leftrightgroup |-> IF IsSome(statuscode)
                                THEN Extract(extractor, Unwrap(statuscode)) ELSE None,
             statuscode |-> statuscode]
        Ok(res) == IF res.ok THEN Some(res.val) ELSE None
    IN Built(Ok(extract_statuscode(text)))

RegisterGroupMessage(group) == [type |-> "RegisterGroup", group |-> group]
PrintMessage(include_lines) == [type |-> "Print", include_lines |-> include_lines]
WinChMessage(width) == [type |-> "WinCh", width |-> width]

----------------------------------------------------------------------------
(* lib.rs: process_as_tui *)

U16 == 65536
GutterLines == 2
MinTagName == 8

\* line 400: number_of_lines = target_height - groups.len() as u16 - 2, at
\* the top of every iteration. u16: below zero it panics in a debug build
\* and wraps in a release build.
LoopTop(cfg, c) ==
    LET Lines(d) ==
            IF d < 0 /\ cfg.debug THEN [c EXCEPT !.pc = "panicked"]
            ELSE [c EXCEPT !.number_of_lines = d % U16]
    IN IF c.pc = "panicked" THEN c
       ELSE Lines(cfg.target_height - (Len(c.groups.stats) % U16) - GutterLines)

\* lines 381-397: the state before the first iteration
TuiNew(cfg) ==
    LoopTop(cfg,
        [pc |-> "run", pending_lines |-> <<>>, lines_skipped |-> 0,
         groups |-> GroupMapNew, global_statuscodes |-> <<>>,
         cut_width |-> cfg.width, lastprinted_stats |-> <<>>,
         lines_to_wipe |-> 0, number_of_lines |-> 0, wrote |-> None])

\* lines 421-425: accounting
Account(cfg, c, updowngroup, leftrightgroup, now) ==
    LET Incremented(g, s) ==
            [c EXCEPT !.groups = [g.gm EXCEPT !.stats[g.index] =
                                     [s.gs EXCEPT !.stats[s.index].pending = @ + 1]],
                      !.global_statuscodes = s.global]
        In(g) ==
            IF ~g.ok THEN [c EXCEPT !.pc = "panicked"]
            ELSE Incremented(g, GroupStatsGetOrCreate(g.gm.stats[g.index],
                                    c.global_statuscodes, leftrightgroup, now))
    IN In(GroupMapGetOrCreate(cfg.debug, c.groups, updowngroup))

\* lines 428-434: whether the filters keep the line from the raw display
FilteredOut(filters, statuscode) ==
    /\ filters # <<>>
    /\ IsSome(statuscode)
    /\ ~\E i \in 1..Len(filters) : StartsWith(Unwrap(statuscode), filters[i])

\* lines 435-439: the line joins the pending raw lines, the oldest leaves
\* when they are as many as number_of_lines
Enqueue(c, m) ==
    LET full == Len(c.pending_lines) >= c.number_of_lines
        kept == IF full /\ c.pending_lines # <<>>
                THEN Tail(c.pending_lines) ELSE c.pending_lines
    IN [c EXCEPT !.pending_lines =
                     Append(kept, [text |-> m.text, statuscode |-> m.leftrightgroup]),
                 !.lines_skipped = IF full THEN @ + 1 ELSE @]

\* Message::Line (lines 414-440)
TuiLineFilterFirst(cfg, c, m, now) ==
    LET Queue(accounted) ==
            IF accounted.pc = "panicked" THEN accounted ELSE Enqueue(accounted, m)
    IN IF FilteredOut(cfg.filters, m.statuscode) THEN c
       ELSE Queue(IF IsSome(m.leftrightgroup)
                  THEN Account(cfg, c, m.updowngroup, Unwrap(m.leftrightgroup), now)
                  ELSE c)

TuiLine(cfg, c, m, now) ==
    LET Queue(accounted) ==
            IF accounted.pc = "panicked" THEN accounted
            ELSE IF FilteredOut(cfg.filters, m.statuscode) THEN accounted
            ELSE Enqueue(accounted, m)
    IN Queue(IF IsSome(m.leftrightgroup)
             THEN Account(cfg, c, m.updowngroup, Unwrap(m.leftrightgroup), now)
             ELSE c)

\* Message::RegisterGroup (lines 411-413)
TuiRegisterGroup(cfg, c, m) ==
    LET Created(g) ==
            IF ~g.ok THEN [c EXCEPT !.pc = "panicked"] ELSE [c EXCEPT !.groups = g.gm]
    IN Created(GroupMapGetOrCreate(cfg.debug, c.groups, m.group))

\* Message::WinCh (lines 406-410)
TuiWinCh(cfg, c, m) == [c EXCEPT !.cut_width = m.width]

\* lines 453-459: the sample rate of the footer (u32 division)
SampleRate(c) ==
    IF c.lines_skipped = 0 THEN 100
    ELSE (100 * Len(c.pending_lines)) \div (c.lines_skipped + Len(c.pending_lines))

\* a pending raw line written whole whatever the width
RenderLineWhole(c, pl) ==
    [ok |-> TRUE,
     text |-> Esc(IF IsSome(pl.statuscode) THEN NOCOLOR ELSE ORANGE)
              \o fmt(parse_nginx_line(pl.text))
              \o Esc(IF IsSome(pl.statuscode) THEN NOCOLOR ELSE RESET)]

\* lines 460-472: one pending raw line as it is written
RenderLine(c, pl) ==
    LET color == IF IsSome(pl.statuscode) THEN NOCOLOR ELSE ORANGE
        reset == IF IsSome(pl.statuscode) THEN NOCOLOR ELSE RESET
        Shown(trimmed_line) ==
            [ok |-> trimmed_line.ok,
             text |-> Esc(color) \o fmt(parse_nginx_line(trimmed_line.val)) \o Esc(reset)]
    IN Shown(IF c.cut_width # 0 /\ StrLen(pl.text) > c.cut_width
             THEN SliceTo(pl.text, c.cut_width)
             ELSE [ok |-> TRUE, val |-> pl.text])

\* RingbufferSpeedometer::get_speed as "{:7.1}" shows it: in tenths

SpeedTenths(ring) ==
    LET Speed(time, msgs) == (2 * 10000 * msgs + time) \div (2 * time)
    IN IF ring = <<>> THEN 0
       ELSE Speed(RingSum(ring, "duration"), RingSum(ring, "msgs"))

Spaces(n) == [i \in 1..n |-> " "]

Digit(d) == <<"0", "1", "2", "3", "4", "5", "6", "7", "8", "9">>[d + 1]

RECURSIVE Decimal(_)
Decimal(n) ==
    IF n < 10 THEN <<Digit(n)>> ELSE Append(Decimal(n \div 10), Digit(n % 10))

SpeedWidth == 7

\* "{:7.1}" of a speed given in tenths
FormatSpeed(tenths) ==
    LET Padded(digits) ==
            IF Len(digits) >= SpeedWidth THEN digits
            ELSE Spaces(SpeedWidth - Len(digits)) \o digits
    IN Padded(Decimal(tenths \div 10) \o <<".", Digit(tenths % 10)>>)

\* lines 517-522: the cell of a code the group has
RateCell(st) ==
    LET Coloured(color) ==
            <<" ", "[">> \o Esc(color[1]) \o st.statuscode \o Esc(color[2]) \o <<"]", " ">>
    IN FormatSpeed(SpeedTenths(st.ring)) \o Coloured(code2color(st.statuscode))

\* lines 524-532: the cell of a code the group lacks; a debug build shows
\* the code, a release build white space of its width
BlankCell(debug, statuscode) ==
    Spaces(SpeedWidth) \o <<" ", " ">>
    \o (IF debug THEN statuscode ELSE Spaces(StrLen(statuscode)))
    \o <<" ", " ">>

\* the merge with a StatusStats that did not match forgotten, not kept for
\* the next code
RECURSIVE MergeCellsForgetful(_, _, _, _, _, _)
MergeCellsForgetful(debug, codes, stats, next, pending, cells) ==
    IF codes = <<>> THEN cells
    ELSE LET fetched == IF next <= Len(stats) THEN next ELSE 0
             next2 == IF next <= Len(stats) THEN next + 1 ELSE next
         IN IF fetched # 0 /\ stats[fetched].statuscode = codes[1]
            THEN MergeCellsForgetful(debug, Tail(codes), stats, next2, 0,
                                     cells \o RateCell(stats[fetched]))
            ELSE MergeCellsForgetful(debug, Tail(codes), stats, next2, 0,
                                     cells \o BlankCell(debug, codes[1]))

\* lines 505-534: the cells of one row, a merge of the group's StatusStats
\* (through the iterator, `next` being what it yields next) with the global
\* codes; `pending` is pending_group_statusstat (0: None)
RECURSIVE MergeCells(_, _, _, _, _, _)
MergeCells(debug, codes, stats, next, pending, cells) ==
    IF codes = <<>> THEN cells
    ELSE LET fetched == IF pending = 0 /\ next <= Len(stats) THEN next ELSE pending
             next2 == IF pending = 0 /\ next <= Len(stats) THEN next + 1 ELSE next
         IN IF fetched # 0 /\ stats[fetched].statuscode = codes[1]
            THEN MergeCells(debug, Tail(codes), stats, next2, 0,
                            cells \o RateCell(stats[fetched]))
            ELSE MergeCells(debug, Tail(codes), stats, next2, fetched,
                            cells \o BlankCell(debug, codes[1]))

\* lines 488-496: the name cell of one row. ok is FALSE when it panics: a
\* subtraction below zero, a slice outside the name or inside a character,
\* a repeat count that wrapped
PaddedTag(debug, group, maxtagname, shared_prefix_len, shared_suffix_len, padded_group_length) ==
    LET At(n) ==
            IF ~n.ok \/ n.val < 0 THEN [ok |-> FALSE, tag |-> <<>>]
            ELSE [ok |-> TRUE, tag |-> <<"@">> \o Spaces(n.val)]
        Slice(from, to) ==
            IF from = -1 \/ to = -1 THEN [ok |-> FALSE, tag |-> <<>>]
            ELSE [ok |-> TRUE,
                  tag |-> Sub(group, from + 1, to) \o Spaces(maxtagname - StrLen(group))]
    IN IF StrLen(group) <= shared_prefix_len + shared_suffix_len
       THEN At(UsizeSub(debug, padded_group_length, 1))
       ELSE Slice(CharsBefore(group, shared_prefix_len),
                  CharsBefore(group, StrLen(group) - shared_suffix_len))

\* max(8, the longest group name)
RECURSIVE MaxGroupLen(_)
MaxGroupLen(stats) ==
    LET Max(a, b) == IF a > b THEN a ELSE b
    IN IF stats = <<>> THEN 0
       ELSE Max(StrLen(stats[1].group), MaxGroupLen(Tail(stats)))

MaxTagName(gm) ==
    LET Max(a, b) == IF a > b THEN a ELSE b
    IN Max(MinTagName, MaxGroupLen(gm.stats))

\* str::trim_end
RECURSIVE TrimEnd(_)
TrimEnd(s) ==
    IF s # <<>> /\ s[Len(s)] \in {" ", NL} THEN TrimEnd(Sub(s, 1, Len(s) - 1)) ELSE s

\* lines 485-536 for the groups from the g-th on
RECURSIVE StatsRows(_, _, _, _, _, _)
StatsRows(cfg, gm, codes, padded_group_length, g, text) ==
    LET Row(tag) ==
            IF ~tag.ok THEN [ok |-> FALSE, text |-> <<>>]
            ELSE StatsRows(cfg, gm, codes, padded_group_length, g + 1,
                     text \o <<"-", "-", " ">> \o tag.tag \o <<" ">>
                     \o MergeCells(cfg.debug, codes, gm.stats[g].stats, 1, 0, <<>>)
                     \o <<NL>>)
    IN IF g > Len(gm.stats) THEN [ok |-> TRUE, text |-> text]
       ELSE Row(PaddedTag(cfg.debug, gm.stats[g].group, MaxTagName(gm),
                          StrLen(gm.shared_prefix), StrLen(gm.shared_suffix),
                          padded_group_length))

\* toflush_stats (lines 479-537), the groups already processed
StatsBlock(cfg, gm, codes) ==
    LET failed == [ok |-> FALSE, text |-> <<>>]
        Trimmed(rows) ==
            IF ~rows.ok THEN failed ELSE [ok |-> TRUE, text |-> TrimEnd(rows.text)]
        Padded(padded_group_length) ==
            IF ~padded_group_length.ok THEN failed
            ELSE Trimmed(StatsRows(cfg, gm, codes, padded_group_length.val, 1, <<>>))
        LessPrefix(d1) ==
            IF ~d1.ok THEN failed
            ELSE Padded(UsizeSub(cfg.debug, d1.val, StrLen(gm.shared_suffix)))
    IN LessPrefix(UsizeSub(cfg.debug, MaxTagName(gm), StrLen(gm.shared_prefix)))

\* toflush_stats.chars().filter(|x| *x == '\n').count()
NewlinesOf(text) == Cardinality({i \in 1..Len(text) : text[i] = NL})

\* line 539, negated: no raw lines to flush and the stats text is the one of
\* the last write
NothingToWriteWithoutLines(flush, toflush_stats, lastprinted_stats) == ~flush
NothingToWrite(flush, toflush_stats, lastprinted_stats) ==
    ~flush /\ toflush_stats = lastprinted_stats

\* line 452: the raw lines are flushed when they are asked for and some are
\* pending
LinesToFlushWhenPending(include_lines, pending_lines) == pending_lines # <<>>
LinesToFlush(include_lines, pending_lines) == include_lines /\ pending_lines # <<>>

\* Message::Print (lines 441-566)
TuiPrint(cfg, c, m, now) ==
    LET flush == LinesToFlush(m.include_lines, c.pending_lines)
        \* lines 539-565
        Written(c1, toflush_lines, toflush_stats) ==
            IF NothingToWrite(flush, toflush_stats, c.lastprinted_stats) THEN c1
            ELSE [c1 EXCEPT !.wrote = Some([up |-> IF m.include_lines
                                                   THEN c.lines_to_wipe + 1
                                                   ELSE c.lines_to_wipe,
                                            lines |-> toflush_lines.lines,
                                            samplerate |-> toflush_lines.samplerate,
                                            stats |-> toflush_stats]),
                            !.lastprinted_stats = toflush_stats,
                            !.lines_to_wipe = NewlinesOf(toflush_stats)]
        \* lines 452-477
        Flushed(rendered) ==
            IF flush
            THEN [ok |-> \A i \in 1..Len(rendered) : rendered[i].ok,
                  lines |-> [i \in 1..Len(rendered) |-> rendered[i].text],
                  samplerate |-> Some(SampleRate(c))]
            ELSE [ok |-> TRUE, lines |-> <<>>, samplerate |-> None]
        Out(toflush_lines, groups, block) ==
            IF ~toflush_lines.ok \/ ~block.ok THEN [c EXCEPT !.pc = "panicked"]
            ELSE Written([c EXCEPT !.groups = groups,
                                   !.pending_lines = IF flush THEN <<>> ELSE @,
                                   !.lines_skipped = IF flush THEN 0 ELSE @],
                         toflush_lines, block.text)
        \* lines 479-537
        Processed(toflush_lines, groups) ==
            Out(toflush_lines, groups, StatsBlock(cfg, groups, c.global_statuscodes))
    IN Processed(Flushed([i \in 1..Len(c.pending_lines) |->
                             RenderLine(c, c.pending_lines[i])]),
                 [c.groups EXCEPT !.stats =
                     [g \in 1..Len(c.groups.stats) |->
                         GroupStatsProcess(c.groups.stats[g], now)]])

\* One iteration of the loop for a received message, up to the top of the
\* next iteration
TuiHandle(cfg, c, m, now) ==
    LET Dispatch(quiet) ==
            IF m.type = "Line" THEN TuiLine(cfg, quiet, m, now)
            ELSE IF m.type = "RegisterGroup" THEN TuiRegisterGroup(cfg, quiet, m)
            ELSE IF m.type = "WinCh" THEN TuiWinCh(cfg, quiet, m)
            ELSE TuiPrint(cfg, quiet, m, now)
    IN LoopTop(cfg, Dispatch([c EXCEPT !.wrote = None]))

----------------------------------------------------------------------------
(* One LineReader and the writers of its file *)

MaxBytes == 4

Bytes == {NL, "a", LeadByte, ContByte}

\* What the file holds when it is opened
InitialContents == {<<>>, <<"a">>, <<"a", NL>>}

ReaderIdle ==
    /\ rfs = NewFs(<<>>)
    /\ rdr = LineReaderNew([handle |-> 1, pos |-> 0], TRUE)
    /\ rstate = "idle"
    /\ rgot = <<>>
    /\ rfrom = 0
    /\ rreopened = FALSE
    /\ rlast = "none"

\* LineReader::new succeeded on a file with some content

\* A writer appends one byte to the file at the path, or to a rotated file
\* it still holds open
RdAppend ==
    /\ rstate = "reading"
    /\ \E f \in {rfs.at, rdr.handle} \ {0}, b \in Bytes :
          /\ Len(Flatten(rfs.data)) < MaxBytes
          /\ rfs' = FsAppend(rfs, f, b)
    /\ UNCHANGED <<rdr, rstate, rgot, rfrom, rreopened, rlast>>
    /\ UNCHANGED <<parseVars, tuiVars, busVars, libVars>>

\* Rotation, first half: the file is renamed away from the path (the file
\* the reader opened first is rotated, its successor is not)
RdMoveAway ==
    /\ rstate = "reading"
    /\ rfs.at = 1
    /\ rfs' = FsMoveAway(rfs)
    /\ UNCHANGED <<rdr, rstate, rgot, rfrom, rreopened, rlast>>
    /\ UNCHANGED <<parseVars, tuiVars, busVars, libVars>>

\* Rotation, second half: a new empty file is created at the path
RdCreate ==
    /\ rstate = "reading"
    /\ rfs.at = 0
    /\ rfs' = FsCreate(rfs)
    /\ UNCHANGED <<rdr, rstate, rgot, rfrom, rreopened, rlast>>
    /\ UNCHANGED <<parseVars, tuiVars, busVars, libVars>>

\* One call of read_lines that returns Ok(lines)
RdReadLines ==
    /\ rstate = "reading"
    /\ \E n \in ReadSizes(rdr, rfs), ok \in BOOLEAN :
          LET res == ReadLinesOk(rdr, rfs, n, ok)
          IN /\ rdr' = res.reader
             /\ rgot' = rgot \o res.lines
             /\ rlast' = IF res.did = "read" /\ rdr.pending # <<>> /\ res.lines # <<>>
                         THEN "joined"    \* a line completed from kept bytes
                         ELSE res.did
             /\ rreopened' = (rreopened \/ res.did = "reopened")
             /\ rfrom' = IF res.did = "reopened" THEN res.reader.pos ELSE rfrom
    /\ UNCHANGED <<rfs, rstate>>
    /\ UNCHANGED <<parseVars, tuiVars, busVars, libVars>>

\* One call of read_lines whose read fails: Err(())
RdReadErr ==
    /\ rstate = "reading"
    /\ rstate' = "failed"
    /\ rlast' = "error"
    /\ UNCHANGED <<rfs, rdr, rgot, rfrom, rreopened>>
    /\ UNCHANGED <<parseVars, tuiVars, busVars, libVars>>

ReaderNext == RdAppend \/ RdMoveAway \/ RdCreate \/ RdReadLines \/ RdReadErr

----------------------------------------------------------------------------
(* process_as_tui handed one message after the other *)

MaxMessages == 3
MaxClock == 1

GroupNames == {<<"a">>, <<"b">>}

\* Lines with a status code after the quoted request, one without, and one of
\* 6 bytes that ends with a character of two bytes
LineTexts ==
    {<<"\"", "\"", " ", "2", "0", "0", " ">>,
     <<"\"", "\"", " ", "4", "0", "4", " ">>,
     <<"a">>,
     <<"a", "a", "a", "a", EAcute>>}

Extractors == {"class", "exact"}
Heights == {3, 5}
\* requested_width, 0 for lines that are not cut, and the widths WinCh brings
RequestedWidths == {0}
Widths == {0, 5}
FilterLists == {<<>>, << <<"4">> >>}

LineMessages(extractor) ==
    {LineMessage(t, g, extractor) : t \in LineTexts, g \in GroupNames}

Buckets ==
    {Unwrap(m.leftrightgroup) :
        m \in {x \in UNION {LineMessages(e) : e \in Extractors} : IsSome(x.leftrightgroup)}}

TuiIdle ==
    /\ args = [target_height |-> 0, width |-> 0, filters |-> <<>>, debug |-> FALSE,
              extractor |-> "class"]
    /\ tui = [pc |-> "idle"]
    /\ plain = [pc |-> "idle"]
    /\ clock = 0
    /\ fed = 0
    /\ counted = [k \in GroupNames \X Buckets |-> 0]
    /\ last = [type |-> "none"]
    /\ screen = <<>>
    /\ passed = <<>>
    /\ cutat = <<>>

\* The terminal after the write of lines 547-559: the cursor sits on the last
\* row of the stats block written before, of remembered + 1 rows; it goes up
\* w.up rows, to column 0, and all from there on is cleared; then the raw
\* lines, the footer of a flush and the stats block are written.  Of the rows
\* above the old stats block, w.up - remembered are cleared.
ScreenAfter(above, w, remembered) ==
    LET cleared == w.up - remembered
        kept == IF cleared <= 0 THEN above
                ELSE SubSeq(above, 1, Len(above) - cleared)
    IN kept \o [i \in 1..Len(w.lines) |-> "line"]
            \o (IF IsSome(w.samplerate) THEN <<"footer">> ELSE <<>>)

\* The loop takes message m from the channel and handles it
Handle(m) ==
    /\ tui.pc = "run" /\ plain.pc = "run"
    /\ fed < MaxMessages
    /\ tui' = TuiHandle(args, tui, m, clock)
    /\ plain' = TuiHandle([args EXCEPT !.filters = <<>>], plain, m, clock)
    /\ fed' = fed + 1
    /\ last' = m
    /\ screen' = IF tui'.pc = "run" /\ IsSome(tui'.wrote)
                 THEN ScreenAfter(screen, Unwrap(tui'.wrote), tui.lines_to_wipe)
                 ELSE screen
    /\ passed' = IF tui'.pc # "run" THEN passed
                 ELSE IF m.type = "Line" /\ ~FilteredOut(args.filters, m.statuscode)
                 THEN Append(passed, m.text)
                 ELSE IF m.type = "Print" /\ m.include_lines /\ tui.pending_lines # <<>>
                 THEN <<>>
                 ELSE passed
    /\ cutat' = IF tui'.pc # "run" THEN cutat
                ELSE IF m.type = "Line" /\ ~FilteredOut(args.filters, m.statuscode)
                THEN SubSeq(Append(cutat, tui.cut_width),
                            Len(cutat) + 2 - Len(tui'.pending_lines), Len(cutat) + 1)
                ELSE SubSeq(cutat, 1, Len(tui'.pending_lines))
    /\ counted' = IF m.type = "Line" /\ IsSome(m.leftrightgroup)
                  THEN [counted EXCEPT ![<<m.updowngroup, Unwrap(m.leftrightgroup)>>] = @ + 1]
                  ELSE counted
    /\ UNCHANGED <<args, clock>>
    /\ UNCHANGED <<parseVars, readerVars, busVars, libVars>>

\* the Line messages of each extractor, parsed once
LineMessagesOf == [e \in Extractors |-> LineMessages(e)]

HandleLine == \E m \in LineMessagesOf[args.extractor] : Handle(m)
HandleRegisterGroup == \E g \in GroupNames : Handle(RegisterGroupMessage(g))
HandleWinCh == \E w \in Widths : Handle(WinChMessage(w))
HandlePrint == \E include_lines \in BOOLEAN : Handle(PrintMessage(include_lines))

\* A millisecond passes
Elapse ==
    /\ tui.pc = "run" /\ plain.pc = "run"
    /\ clock < MaxClock
    /\ clock' = clock + 1
    /\ UNCHANGED <<args, tui, plain, fed, counted, last, screen, passed, cutat>>
    /\ UNCHANGED <<parseVars, readerVars, busVars, libVars>>

Next ==
    \/ HandleLine
    \/ HandleRegisterGroup
    \/ HandleWinCh
    \/ HandlePrint
    \/ Elapse

----------------------------------------------------------------------------
(* lib.rs: process_as_streaming *)

\* One iteration of the loop for a received message (lines 339-366)
StreamingHandle(cfg, c, m) ==
    IF m.type \in {"WinCh", "Print"}
    THEN IF cfg.debug THEN [c EXCEPT !.pc = "panicked"]  \* unreachable!()
         ELSE [c EXCEPT !.wrote = None]
    ELSE IF m.type = "Line" /\ ~FilteredOut(cfg.filters, m.statuscode)
    THEN [c EXCEPT !.wrote = Some(fmt(parse_nginx_line(m.text)))]
    ELSE [c EXCEPT !.wrote = None]

----------------------------------------------------------------------------
(* follow, periodic_print and the consumer around the bus *)

MaxCap == 2
MaxAppends == 2
MaxTicks == 1

\* A tailer is named by the group it reports
TailerNames == {<<"a">>}
Ticker == <<"ticker">>
Producers == TailerNames \cup {Ticker}

\* What a followed file holds before anything is appended: a line not ended
BusInitialContent == <<"a">>

\* Sender::send on a channel that is open and not full
ChannelSendFront(b, from, m) ==
    [b EXCEPT !.queue = <<[from |-> from, msg |-> m]>> \o @]
ChannelSend(b, from, m) ==
    [b EXCEPT !.queue = Append(@, [from |-> from, msg |-> m])]

\* Receiver::recv fails: the channel is closed and nothing is queued
RecvFailsWhenClosed(b) == b.closed
RecvFails(b) == b.closed /\ b.queue = <<>>

\* periodic_print: whether the n-th Print asks for the raw lines
IncludeLines(n) == n = 4 \/ (n > 4 /\ (n - 4) % 16 = 0)

BusIdle ==
    /\ bus = [cap |-> 1, queue |-> <<>>, closed |-> TRUE]
    /\ tl = [t \in TailerNames |-> [pc |-> "idle"]]
    /\ fsys = [t \in TailerNames |-> NewFs(<<>>)]
    /\ tick = [pc |-> "idle", n |-> 0]
    /\ cons = [mode |-> "idle"]
    /\ sent = [p \in Producers |-> <<>>]
    /\ recvd = [p \in Producers |-> <<>>]

\* The send of producer p goes through: the bus is open and has room
SendsWithoutRoom(p, m) ==
    /\ ~bus.closed
    /\ bus' = ChannelSend(bus, p, m)
    /\ sent' = [sent EXCEPT ![p] = Append(@, m)]
Sends(p, m) ==
    /\ ~bus.closed
    /\ Len(bus.queue) < bus.cap
    /\ bus' = ChannelSend(bus, p, m)
    /\ sent' = [sent EXCEPT ![p] = Append(@, m)]

\* follow, lines 185-188: send(RegisterGroup).await.unwrap()
TlRegisterTwice(t) ==
    /\ tl[t].pc = "start"
    /\ Sends(t, RegisterGroupMessage(t))
    /\ tl' = [tl EXCEPT ![t].pc = IF sent[t] = <<>> THEN "start" ELSE "open"]
    /\ UNCHANGED <<fsys, tick, cons, recvd>>
    /\ UNCHANGED <<parseVars, readerVars, tuiVars, libVars>>
TlRegister(t) ==
    /\ tl[t].pc = "start"
    /\ IF bus.closed
       THEN /\ tl' = [tl EXCEPT ![t].pc = "panicked"]
            /\ UNCHANGED <<bus, sent>>
       ELSE /\ Sends(t, RegisterGroupMessage(t))
            /\ tl' = [tl EXCEPT ![t].pc = "open"]
    /\ UNCHANGED <<fsys, tick, cons, recvd>>
    /\ UNCHANGED <<parseVars, readerVars, tuiVars, libVars>>

\* follow, lines 189-195: LineReader::new(file)
TlOpen(t) ==
    /\ tl[t].pc = "open"
    /\ \E ok \in BOOLEAN :
          LET opened == _open_file(fsys[t], ok)
          IN tl' = IF IsSome(opened)
                   THEN [tl EXCEPT ![t].pc = "read",
                                   ![t].from = Unwrap(opened).pos,
                                   ![t].rdr = LineReaderNew(Unwrap(opened), tl[t].canonical)]
                   ELSE [tl EXCEPT ![t].pc = "done", ![t].why = "open failed"]
    /\ UNCHANGED <<bus, fsys, tick, cons, sent, recvd>>
    /\ UNCHANGED <<parseVars, readerVars, tuiVars, libVars>>

\* follow, lines 197-204: read_lines returns Ok(lines)
TlRead(t) ==
    /\ tl[t].pc = "read"
    /\ tl[t].lines = <<>>
    /\ \E n \in ReadSizes(tl[t].rdr, fsys[t]), ok \in BOOLEAN :
          LET res == ReadLinesOk(tl[t].rdr, fsys[t], n, ok)
          IN tl' = [tl EXCEPT ![t].rdr = res.reader,
                              ![t].reopened = @ \/ res.did = "reopened",
                              ![t].lines = [i \in 1..Len(res.lines) |->
                                               LineMessage(res.lines[i], t, "class")]]
    /\ UNCHANGED <<bus, fsys, tick, cons, sent, recvd>>
    /\ UNCHANGED <<parseVars, readerVars, tuiVars, libVars>>

\* follow, lines 220-223: read_lines returns Err
TlReadErrClosesBus(t) ==
    /\ tl[t].pc = "read"
    /\ tl[t].lines = <<>>
    /\ tl' = [tl EXCEPT ![t].pc = "done", ![t].why = "read error"]
    /\ bus' = [bus EXCEPT !.closed = TRUE]
    /\ UNCHANGED <<fsys, tick, cons, sent, recvd>>
    /\ UNCHANGED <<parseVars, readerVars, tuiVars, libVars>>
TlReadErr(t) ==
    /\ tl[t].pc = "read"
    /\ tl[t].lines = <<>>
    /\ tl' = [tl EXCEPT ![t].pc = "done", ![t].why = "read error"]
    /\ UNCHANGED <<bus, fsys, tick, cons, sent, recvd>>
    /\ UNCHANGED <<parseVars, readerVars, tuiVars, libVars>>

\* follow, lines 205-217: send the next line, return when the bus is closed
TlSend(t) ==
    /\ tl[t].pc = "read"
    /\ tl[t].lines # <<>>
    /\ IF bus.closed
       THEN /\ tl' = [tl EXCEPT ![t].pc = "done", ![t].why = "bus closed"]
            /\ UNCHANGED <<bus, sent>>
       ELSE /\ Sends(t, Head(tl[t].lines))
            /\ tl' = [tl EXCEPT ![t].lines = Tail(@)]
    /\ UNCHANGED <<fsys, tick, cons, recvd>>
    /\ UNCHANGED <<parseVars, readerVars, tuiVars, libVars>>

\* A writer appends one byte to the file a tailer follows
Write(t) ==
    /\ tl[t].pc \in {"open", "read"}
    /\ Len(fsys[t].data[1]) < Len(BusInitialContent) + MaxAppends
    /\ \E b \in {"a", NL} : fsys' = [fsys EXCEPT ![t] = FsAppend(@, 1, b)]
    /\ UNCHANGED <<bus, tl, tick, cons, sent, recvd>>
    /\ UNCHANGED <<parseVars, readerVars, tuiVars, libVars>>

\* periodic_print: the next Print; `?` returns the error of a closed bus
Tick ==
    /\ tick.pc = "run"
    /\ tick.n < MaxTicks
    /\ IF bus.closed
       THEN /\ tick' = [tick EXCEPT !.pc = "failed"]
            /\ UNCHANGED <<bus, sent>>
       ELSE /\ Sends(Ticker, PrintMessage(IncludeLines(tick.n + 1)))
            /\ tick' = [tick EXCEPT !.n = @ + 1]
    /\ UNCHANGED <<tl, fsys, cons, recvd>>
    /\ UNCHANGED <<parseVars, readerVars, tuiVars, libVars>>

\* The consumer takes the oldest message and handles it; a consumer that
\* panics drops the receiver, which closes the channel
ConsRecv ==
    /\ cons.st.pc = "run"
    /\ bus.queue # <<>>
    /\ LET m == Head(bus.queue)
           st == IF cons.mode = "tui" THEN TuiHandle(cons.cfg, cons.st, m.msg, 0)
                 ELSE StreamingHandle(cons.cfg, cons.st, m.msg)
       IN /\ cons' = [cons EXCEPT !.st = st,
                                  !.drained = IF bus.closed THEN 1 ELSE @]
          /\ bus' = [bus EXCEPT !.queue = Tail(@),
                                !.closed = @ \/ st.pc = "panicked"]
          /\ recvd' = [recvd EXCEPT ![m.from] = Append(@, m.msg)]
    /\ UNCHANGED <<tl, fsys, tick, sent>>
    /\ UNCHANGED <<parseVars, readerVars, tuiVars, libVars>>

\* recv fails and the consumer returns (lines 335-338, 402-405)
ConsReturn ==
    /\ cons.st.pc = "run"
    /\ RecvFails(bus)
    /\ cons' = [cons EXCEPT !.st.pc = "returned"]
    /\ UNCHANGED <<bus, tl, fsys, tick, sent, recvd>>
    /\ UNCHANGED <<parseVars, readerVars, tuiVars, libVars>>

\* The channel is closed from outside the tasks: the holder of the receiver
\* drops it, or a handle's close() is called
CloseBus ==
    /\ ~bus.closed
    /\ bus' = [bus EXCEPT !.closed = TRUE]
    /\ UNCHANGED <<tl, fsys, tick, cons, sent, recvd>>
    /\ UNCHANGED <<parseVars, readerVars, tuiVars, libVars>>

BusNext ==
    \/ \E t \in TailerNames : TlRegister(t)
    \/ \E t \in TailerNames : TlOpen(t)
    \/ \E t \in TailerNames : TlRead(t)
    \/ \E t \in TailerNames : TlReadErr(t)
    \/ \E t \in TailerNames : TlSend(t)
    \/ \E t \in TailerNames : Write(t)
    \/ Tick
    \/ ConsRecv
    \/ ConsReturn
    \/ CloseBus

InitBus ==
    /\ \E cap \in 1..MaxCap : bus = [cap |-> cap, queue |-> <<>>, closed |-> FALSE]
    /\ \E canonical \in [TailerNames -> BOOLEAN] :
          tl = [t \in TailerNames |->
                   [pc |-> "start", canonical |-> canonical[t], lines |-> <<>>,
                    from |-> 0, reopened |-> FALSE, why |-> "",
                    rdr |-> LineReaderNew([handle |-> 0, pos |-> 0], canonical[t])]]
    /\ fsys = [t \in TailerNames |-> NewFs(BusInitialContent)]
    /\ tick = [pc |-> "run", n |-> 0]
    /\ \E mode \in {"tui", "streaming"}, debug \in BOOLEAN :
          LET cfg == [target_height |-> 3, width |-> 0, filters |-> <<>>,
                      debug |-> debug, extractor |-> "class"]
          IN cons = [mode |-> mode, cfg |-> cfg, drained |-> 0,
                     st |-> IF mode = "tui" THEN TuiNew(cfg)
                            ELSE [pc |-> "run", wrote |-> None]]
    /\ sent = [p \in Producers |-> <<>>]
    /\ recvd = [p \in Producers |-> <<>>]
    /\ ParseIdle
    /\ ReaderIdle
    /\ TuiIdle
    /\ LibIdle

SpecBus == InitBus /\ [][BusNext]_vars

\* recv().await has a message to return to a consumer that waits for one:
\* ENABLED <<ConsRecv>>_vars, written out
ConsRecvEnabled == cons.st.pc = "run" /\ bus.queue # <<>>

\* The executor keeps polling its tasks: the consumer takes a message that
\* waits for it (weak fairness of ConsRecv), and a sender that finds room
\* again and again gets its message in (strong fairness of each send)
SpecBusFair ==
    /\ SpecBus
    /\ ([]<>(~ConsRecvEnabled) \/ []<><<ConsRecv>>_vars)
    /\ \A t \in TailerNames : SF_vars(TlSend(t))
    /\ SF_vars(Tick)

----------------------------------------------------------------------------
(* speedometer.rs: a RingbufferSpeedometer and a SmootherSpeedometer fed the
   same measurements *)

MaxCapacity == 4
MaxAdds == 7

\* (duration, msgs): those of the tests, and durations of 0 ms
Measurements == {<<100, 10>>, <<150, 30>>, <<1000, 0>>, <<0, 0>>, <<0, 5>>}
SmoothFactors == {Rat(1, 2)}

InitSpeed ==
    /\ \E capacity \in 0..MaxCapacity, more \in 0..1, smooth_factor \in SmoothFactors :
          spd = [ring |-> RingbufferNew(capacity, capacity + more),
                 smoother |-> SmootherNew(smooth_factor),
                 fed |-> <<>>,
                 was |-> Rat(0, 1)]
    /\ gmap = [pc |-> "idle"]
    /\ xs = [pc |-> "idle"]
    /\ ParseIdle
    /\ ReaderIdle
    /\ TuiIdle
    /\ BusIdle

\* add_measurement(duration, msgs) on both
AddMeasurement ==
    /\ spd.ring.pc = "run"
    /\ Len(spd.fed) < MaxAdds
    /\ \E m \in Measurements :
          spd' = [spd EXCEPT
                     !.ring.measurements = RingPush(spd.ring.capacity, @, m[1], m[2]),
                     !.smoother = SmootherAdd(@, m[1], m[2]),
                     !.fed = Append(@, m),
                     !.was = spd.smoother.speed]
    /\ UNCHANGED <<gmap, xs>>
    /\ UNCHANGED <<parseVars, readerVars, tuiVars, busVars>>

SpeedNext == AddMeasurement

SpecSpeed == InitSpeed /\ [][SpeedNext]_vars

----------------------------------------------------------------------------
(* collections.rs: a GroupMap and the calls of get_or_create on it *)

MaxCalls == 3

\* The names get_or_create is called with: file paths as main.rs passes them
TagNames ==
    {<<"a", "a">>,
     <<"a", "a", "a">>,
     <<"a", "a", "a", "a">>,
     <<"a", "a", "a", "a", "a">>,
     <<"0", "/", "a", "b", "c", "d", ".", "l", "o", "g">>,
     <<"2", "/", "a", "b", "c", "d", ".", "l", "o", "g">>,
     <<"/", "a", "/", "b", "/", "c", "/", "d", "/", "0", ".", "l", "o", "g">>,
     <<"/", "a", "/", "b", "/", "c", "/", "d", "/", "2", ".", "l", "o", "g">>,
     <<"/", "a", "/", "b", "/", "c", "/", "d", "/", "4", ".", "l", "o", "g">>,
     <<"x", "0", "0", "0", "0", "0", "0", "0", "0">>,
     <<"x", "2", "2", "2", "2", "2", "2", "2", "2">>}

InitGroups ==
    /\ \E debug \in BOOLEAN :
          gmap = [pc |-> "run", debug |-> debug, gm |-> GroupMapNew, before |-> GroupMapNew,
                  calls |-> <<>>, got |-> 0]
    /\ spd = [pc |-> "idle"]
    /\ xs = [pc |-> "idle"]
    /\ ParseIdle
    /\ ReaderIdle
    /\ TuiIdle
    /\ BusIdle

\* get_or_create(tag); a call that panics ends the run
GetOrCreate ==
    /\ gmap.pc = "run"
    /\ Len(gmap.calls) < MaxCalls
    /\ \E tag \in TagNames :
          LET res == GroupMapGetOrCreate(gmap.debug, gmap.gm, tag)
          IN gmap' = [gmap EXCEPT !.pc = IF res.ok THEN "run" ELSE "panicked",
                                  !.gm = res.gm,
                                  !.before = gmap.gm,
                                  !.calls = Append(@, tag),
                                  !.got = res.index]
    /\ UNCHANGED <<spd, xs>>
    /\ UNCHANGED <<parseVars, readerVars, tuiVars, busVars>>

GroupsNext == GetOrCreate

SpecGroups == InitGroups /\ [][GroupsNext]_vars

----------------------------------------------------------------------------
(* lib.rs: extract_statuscode on the lines a tailer classifies *)

MaxCodeLineLen == 5

\* The characters that decide the outcome: the quote, the space, a character
\* of one byte, one of two bytes, and the character of three bytes that
\* from_utf8_lossy puts for an invalid byte
CodeLineAlphabet == {"\"", " ", "2", EAcute, Replacement}

\* let statuscode = extract_statuscode(&line) in follow(), for one line
InitClassify ==
    /\ \E text \in StrUpTo(CodeLineAlphabet, MaxCodeLineLen) :
          xs = [pc |-> "line", line |-> text]
    /\ spd = [pc |-> "idle"]
    /\ gmap = [pc |-> "idle"]
    /\ ParseIdle
    /\ ReaderIdle
    /\ TuiIdle
    /\ BusIdle

Classify ==
    /\ xs.pc = "line"
    /\ xs' = [pc |-> "classified", line |-> xs.line, res |-> extract_statuscode(xs.line)]
    /\ UNCHANGED <<parseVars, readerVars, tuiVars, busVars, spd, gmap>>

SpecClassify == InitClassify /\ [][Classify]_vars

Init ==
    /\ args \in [target_height : Heights, width : RequestedWidths, filters : FilterLists,
                 debug : BOOLEAN, extractor : Extractors]
    /\ tui = TuiNew(args)
    /\ plain = TuiNew([args EXCEPT !.filters = <<>>])
    /\ clock = 0
    /\ fed = 0
    /\ counted = [k \in GroupNames \X Buckets |-> 0]
    /\ last = [type |-> "none"]
    /\ screen = <<>>
    /\ passed = <<>>
    /\ cutat = <<>>
    /\ ParseIdle
    /\ ReaderIdle
    /\ BusIdle
    /\ LibIdle

Spec == Init /\ [][Next]_vars

InitReader ==
    /\ \E c \in InitialContents, canonical \in BOOLEAN :
          /\ rfs = NewFs(c)
          /\ rdr = LineReaderNew(Unwrap(_open_file(NewFs(c), TRUE)), canonical)
          /\ rfrom = Len(c)
    /\ rstate = "reading"
    /\ rgot = <<>>
    /\ rreopened = FALSE
    /\ rlast = "none"
    /\ ParseIdle
    /\ TuiIdle
    /\ BusIdle
    /\ LibIdle

SpecReader == InitReader /\ [][ReaderNext]_vars

InitParse ==
    /\ line \in ParseInputs
    /\ parsed = EmptyParsed
    /\ shown = <<>>
    /\ ppc = "input"
    /\ ReaderIdle
    /\ TuiIdle
    /\ BusIdle
    /\ LibIdle

SpecParse == InitParse /\ [][ParseNext]_vars

----------------------------------------------------------------------------
(* Claims about the parser, checked under SpecParse *)

\* The output of Display with the colour escape sequences it inserted removed
StripColors(out) == SelectSeq(out, LAMBDA x : x \notin ColorCodes)

\* The fields and separators of a ParsedLine in order, tail last; an absent
\* separator contributes nothing
Unparse(p) ==
    p.head \o Flatten(p.head_date) \o p.date \o Flatten(p.date_method)
        \o p.method \o Flatten(p.method_url) \o p.url \o Flatten(p.url_lvl)
        \o p.protocollvl \o Flatten(p.lvl_statuscode) \o p.statuscode \o p.tail

\* The separators in order, each with the field that follows it
SepOrder == <<"head_date", "date_method", "method_url", "url_lvl", "lvl_statuscode">>
FieldAfter == <<"date", "method", "url", "protocollvl", "statuscode">>

\* C9: round-trip law of the parser: for every input (full lines, lines cut at
\* any position, strings without structure, the empty string), Display of the
\* parsed line with the inserted colour escapes removed is the input itself.
C9_RoundTrip == ppc = "shown" => StripColors(shown) = line

\* a line that was coloured (so that stripping has something to remove) and
\* one that stopped early with a tail
C9_Witness ==
    /\ ppc = "shown"
    /\ \E i \in 1..Len(shown) : shown[i] = WHITE
    /\ \E i \in 1..Len(shown) : shown[i] = GREEN
    /\ parsed.tail # <<>>

\* C10: parse_nginx_line returns, for every input, a ParsedLine (a) whose
\* fields and separators concatenated in order, tail last, are the input, and
\* (b) in which every separator after an absent one is absent and every field
\* after an absent separator, except tail, is empty.
C10_ParsedReproducesInput ==
    ppc \in {"parsed", "shown"} =>
        /\ Unparse(parsed) = line
        /\ \A i \in 1..Len(SepOrder) :
              ~IsSome(parsed[SepOrder[i]]) =>
                  \A j \in i..Len(SepOrder) :
                      /\ ~IsSome(parsed[SepOrder[j]])
                      /\ parsed[FieldAfter[j]] = <<>>

\* a parse that stopped in the middle at a character that broke the
\* expectation: earlier separators present, later ones absent, tail not empty
C10_Witness ==
    /\ ppc = "parsed"
    /\ IsSome(parsed.date_method)
    /\ ~IsSome(parsed.method_url)
    /\ parsed.tail # <<>>
    /\ parsed.date # <<>>

----------------------------------------------------------------------------
(* Claims about LineReader, checked under SpecReader *)

\* The pieces of a byte stream that end in a newline, newlines removed
RECURSIVE CompleteLines(_)
CompleteLines(b) ==
    LET e == Find(b, 1, NL)
    IN IF e = 0 THEN <<>>
       ELSE <<Sub(b, 1, e - 1)>> \o CompleteLines(Sub(b, e + 1, Len(b)))

\* The bytes of a stream after its last newline
RECURSIVE AfterLastNewline(_)
AfterLastNewline(b) ==
    LET e == Find(b, 1, NL)
    IN IF e = 0 THEN b ELSE AfterLastNewline(Sub(b, e + 1, Len(b)))

DecodeAll(ls) == [i \in 1..Len(ls) |-> from_utf8_lossy(ls[i])]

\* The bytes the current handle has read since it was opened
StreamRead == Sub(rfs.data[rdr.handle], rfrom + 1, rdr.pos)

\* C3: line reassembly does not depend on how the bytes arrive: as long as
\* read_lines has not replaced the handle, whatever the sizes of the reads,
\* the lines returned so far are the (decoded) pieces of the bytes read so
\* far that end in a newline, in order, and pending is exactly what follows
\* the last newline read, so it holds no newline.
C3_ReassemblyIndependentOfReads ==
    ~rreopened =>
        /\ rgot = DecodeAll(CompleteLines(StreamRead))
        /\ rdr.pending = AfterLastNewline(StreamRead)
        /\ \A i \in 1..Len(rdr.pending) : rdr.pending[i] # NL

\* a line that arrived in two reads was returned once, joined, by the second,
\* which also left the start of the next line in pending
C3_Witness ==
    /\ ~rreopened
    /\ rdr.canonical
    /\ rlast = "joined"
    /\ Len(rgot) = 1
    /\ Len(rgot[1]) >= 2
    /\ rdr.pending # <<>>

----------------------------------------------------------------------------
(* Claims about process_as_tui, checked under Spec *)

\* What a run has counted for group g and code: the pending counter plus
\* what Print folded into the ring, 0 when there is no such StatusStats
CountedBy(c, g, code) ==
    LET gi == PositionOfGroup(c.groups.stats, 1, g)
        si == PositionOfCode(c.groups.stats[gi].stats, 1, code)
        st == c.groups.stats[gi].stats[si]
    IN IF gi = 0 THEN 0
       ELSE IF si = 0 THEN 0
       ELSE st.pending + RingSum(st.ring, "msgs")

RingsNotFull(c) ==
    \A gi \in 1..Len(c.groups.stats) : \A si \in 1..Len(c.groups.stats[gi].stats) :
        Len(c.groups.stats[gi].stats[si].ring) < RingCapacity

\* C1: after any Line and Print messages, for every group and bucket the
\* pending counter plus the counts folded into the estimator equals the
\* number of Line messages handled with that group and bucket (as long as the
\* ring has dropped no sample).
C1_EveryLineCounted ==
    (tui.pc = "run" /\ RingsNotFull(tui)) =>
        \A k \in GroupNames \X Buckets : CountedBy(tui, k[1], k[2]) = counted[k]

\* The aggregation state of a run
Aggregation(c) == [groups |-> c.groups, global_statuscodes |-> c.global_statuscodes]

\* C2: with any filter list and with none, the same messages leave the same
\* groups, the same codes per group, the same global list of codes and the
\* same pending counters.
C2_FiltersLeaveAggregationAlone ==
    (tui.pc = "run" /\ plain.pc = "run") => Aggregation(tui) = Aggregation(plain)

\* A Line the filters kept from the raw lines has been counted
C2_Witness ==
    /\ tui.pc = "run" /\ plain.pc = "run"
    /\ args.filters # <<>>
    /\ tui.pending_lines = <<>>
    /\ \E i \in 1..Len(plain.pending_lines) :
           /\ FilteredOut(args.filters, Some(extract_statuscode(plain.pending_lines[i].text).val))
           /\ \E g \in GroupNames :
                  CountedBy(tui, g, Unwrap(plain.pending_lines[i].statuscode)) > 0

----------------------------------------------------------------------------
(* Claims about the tasks around the bus, checked under SpecBus *)

IsPrefix(a, b) == Len(a) <= Len(b) /\ a = SubSeq(b, 1, Len(a))

\* The texts of the Line messages tailer t has put on the bus
SentLines(t) ==
    LET ls == SelectSeq(sent[t], LAMBDA m : m.type = "Line")
    IN [i \in 1..Len(ls) |-> ls[i].text]

\* The bytes appended to the file of tailer t since the tailer opened it
AppendedSinceOpen(t) == Sub(fsys[t].data[1], tl[t].from + 1, Len(fsys[t].data[1]))

\* C4: with the bus open, no rotation and no read error, the Line messages a
\* tailer has sent are, in order, newline-terminated lines appended to its
\* file after it opened the file and sought to the end: nothing else is sent,
\* nothing is sent twice, nothing from before the open is sent.
C4_SentLinesAreAppendedLines ==
    \A t \in TailerNames :
        (~bus.closed /\ tl[t].pc = "read") =>
            IsPrefix(SentLines(t), DecodeAll(CompleteLines(AppendedSinceOpen(t))))

\* C5: what a tailer has put on the bus is nothing, or RegisterGroup(its
\* group) followed by Line messages only: the registration is first, is sent
\* once, and precedes every Line, also when the file cannot be opened or
\* nothing is appended to it.
C5_RegisterGroupFirstAndOnce ==
    \A t \in TailerNames :
        /\ tl[t].pc \in {"open", "read", "done"} => sent[t] # <<>>
        /\ sent[t] = <<>> \/
               /\ sent[t][1] = RegisterGroupMessage(t)
               /\ \A i \in 2..Len(sent[t]) : sent[t][i].type = "Line"

\* a tailer whose file could not be opened had registered its group, and the
\* consumer has received the registration
C5_Witness ==
    \E t \in TailerNames :
        /\ tl[t].pc = "done" /\ tl[t].why = "open failed"
        /\ sent[t] = <<RegisterGroupMessage(t)>>
        /\ recvd[t] = sent[t]

\* The messages of producer p still queued on the bus, oldest first
QueuedFrom(p) ==
    LET q == SelectSeq(bus.queue, LAMBDA e : e.from = p)
    IN [i \in 1..Len(q) |-> q[i].msg]

\* C6: for every producer, whatever the interleaving and the capacity, what
\* the consumer has received from it followed by what is still queued from it
\* is what it has sent: same order, nothing lost, nothing duplicated.
C6_PerProducerFifo ==
    \A p \in Producers : sent[p] = recvd[p] \o QueuedFrom(p)

\* the consumer has received two messages of a tailer and a Print of the
\* ticker while a further message of the tailer is still queued
C6_Witness ==
    \E t \in TailerNames :
        /\ Len(recvd[t]) >= 2
        /\ Len(recvd[Ticker]) >= 1
        /\ QueuedFrom(t) # <<>>

\* C7: a producer that attempts a send on the closed bus ends its task
\* normally and sends nothing further: no producer task aborts.
C7_ProducersEndNormally ==
    /\ \A t \in TailerNames : tl[t].pc # "panicked"
    /\ tick.pc # "panicked"

\* C8: the consumer has returned only after a receive failed: the bus is
\* closed, nothing is queued, and every message a producer sent has been
\* received (those still queued at the close included).
C8_ReturnsOnlyWhenRecvFails ==
    cons.st.pc = "returned" =>
        /\ bus.closed
        /\ bus.queue = <<>>
        /\ \A p \in Producers : recvd[p] = sent[p]

\* the consumer returned after handling a message that was still queued when
\* the bus was closed
C8_Witness ==
    /\ cons.st.pc = "returned"
    /\ cons.drained = 1
    /\ \E p \in Producers : recvd[p] # <<>>

----------------------------------------------------------------------------
(* Claims about the speedometers, checked under SpecSpeed *)

\* The last n elements of a sequence
LastN(q, n) == SubSeq(q, Len(q) - n + 1, Len(q))

Min(a, b) == IF a < b THEN a ELSE b

\* The sum of the i-th components of a sequence of measurements
RECURSIVE SumOf(_, _)
SumOf(q, i) == IF q = <<>> THEN 0 ELSE q[1][i] + SumOf(Tail(q), i)

\* The measurements of the tests: (100,10), (150,30), then (1000,0) repeated
TestInput == <<<<100, 10>>, <<150, 30>>>> \o [i \in 1..(MaxAdds + 1) |-> <<1000, 0>>]

FedTestInput == spd.fed = SubSeq(TestInput, 1, Len(spd.fed))

\* get_speed of a ring of capacity 4 before any input and after each of them
RingExpected ==
    <<Rat(0, 1), Rat(100, 1), Rat(160, 1), Rat(32, 1), Rat(40000, 2250),
      Rat(30000, 3150), Rat(0, 1), Rat(0, 1)>>

\* C11: for every capacity N >= 1 and every sequence of k add_measurement
\* calls, the ring holds the last min(k, N) measurements in insertion order;
\* get_speed is 0 on an empty ring and otherwise 1000 * sum(count) /
\* sum(elapsedMs) over them; and with N = 4 on the input of the test the
\* successive speeds are 0, 100, 160, 32, 40000/2250, 30000/3150, 0, 0.
C11_RingKeepsLastN ==
    spd.ring.pc = "run" =>
        LET kept == LastN(spd.fed, Min(Len(spd.fed), spd.ring.capacity))
            ring == spd.ring.measurements
        IN /\ Len(ring) <= spd.ring.capacity
           /\ ring = [i \in 1..Len(kept) |-> [duration |-> kept[i][1], msgs |-> kept[i][2]]]
           /\ kept = <<>> => RingGetSpeed(ring) = Rat(0, 1)
           /\ SumOf(kept, 1) > 0 =>
                  RingGetSpeed(ring) = Rat(1000 * SumOf(kept, 2), SumOf(kept, 1))
           /\ (spd.ring.capacity = 4 /\ FedTestInput /\ Len(spd.fed) < Len(RingExpected)) =>
                  RingGetSpeed(ring) = RingExpected[Len(spd.fed) + 1]

\* a ring of capacity 4 that was fed the seven measurements of the test: the
\* two samples with a count have left, the speed is back to 0
C11_Witness ==
    /\ spd.ring.pc = "run"
    /\ spd.ring.capacity = 4
    /\ Len(spd.fed) = 7
    /\ FedTestInput
    /\ Len(spd.ring.measurements) = 4
    /\ RingGetSpeed(spd.ring.measurements) = Rat(0, 1)

\* The speed of a smoother with factor 0.5 after each measurement of the test
SmootherExpected ==
    <<Rat(50, 1), Rat(125, 1), Rat(125, 2), Rat(125, 4), Rat(125, 8), Rat(125, 16),
      Rat(125, 32), Rat(125, 64)>>

\* C12: the smoother starts at speed 0; a measurement with elapsedMs > 0 sets
\* the speed to factor * (count * 1000 / elapsedMs) + (1 - factor) * the speed
\* before it; with factor 0.5 on the input of the test the speeds are 50, 125,
\* 62.5 and then half the previous one each time.
C12_SmootherRecurrence ==
    LET k == Len(spd.fed)
        s == spd.smoother
    IN spd.ring.pc = "run" =>
        /\ k = 0 => s.speed = Rat(0, 1)
        /\ (k > 0 /\ spd.fed[k][1] > 0) =>
               s.speed = RatAdd(RatMul(s.smooth_factor, Rat(1000 * spd.fed[k][2], spd.fed[k][1])),
                                RatMul(OneMinus(s.smooth_factor), spd.was))
        /\ (k > 0 /\ k <= Len(SmootherExpected) /\ FedTestInput /\ s.smooth_factor = Rat(1, 2)) =>
               s.speed = SmootherExpected[k]
        /\ (k > 3 /\ FedTestInput /\ s.smooth_factor = Rat(1, 2)) =>
               RatAdd(s.speed, s.speed) = spd.was

\* a smoother with factor 0.5 after (100,10), (150,30) and four times (1000,0)
C12_Witness ==
    /\ spd.ring.pc = "run"
    /\ Len(spd.fed) = 6
    /\ FedTestInput
    /\ spd.smoother.speed = Rat(125, 16)
    /\ spd.was = Rat(125, 8)

\* C13: a measurement with elapsedMs = 0, whatever its count, leaves the speed
\* of the smoother as it was, and the speed is a finite number after every
\* sequence of measurements.
C13_SmootherStaysFinite ==
    LET k == Len(spd.fed)
    IN spd.ring.pc = "run" =>
        /\ spd.smoother.speed.kind = "finite"
        /\ spd.smoother.speed.den > 0
        /\ (k > 0 /\ spd.fed[k][1] = 0) => spd.smoother.speed = spd.was

\* measurements of 0 ms with and without a count came between two ordinary
\* ones: the speed is the one two ordinary measurements give
C13_Witness ==
    /\ spd.ring.pc = "run"
    /\ spd.fed = <<<<100, 10>>, <<0, 5>>, <<0, 0>>, <<150, 30>>>>
    /\ spd.smoother.speed = Rat(125, 1)

----------------------------------------------------------------------------
(* Claims about GroupMap, checked under SpecGroups *)

GroupNamesOf(gm) == [k \in 1..Len(gm.stats) |-> gm.stats[k].group]

\* The length in bytes of the longest name
RECURSIVE Longest(_)
Longest(names) ==
    IF names = <<>> THEN 0
    ELSE LET rest == Longest(Tail(names))
         IN IF StrLen(names[1]) > rest THEN StrLen(names[1]) ELSE rest

\* C14: after any calls of get_or_create that leave two or more groups, no
\* call has failed, and shared_prefix and shared_suffix are both empty or the
\* longest name less the two leaves at least 8.
C14_TrimKeepsEight ==
    gmap.pc # "idle" =>
        /\ gmap.pc = "run"
        /\ Len(gmap.gm.stats) >= 2 =>
              \/ gmap.gm.shared_prefix = <<>> /\ gmap.gm.shared_suffix = <<>>
              \/ Longest(GroupNamesOf(gmap.gm)) - StrLen(gmap.gm.shared_prefix)
                     - StrLen(gmap.gm.shared_suffix) >= MinTextLeft

\* C15: get_or_create with a registered name hands back the group of that
\* name and leaves the map as it was (groups, order, shared_prefix,
\* shared_suffix); names are pairwise distinct; with fewer than two groups
\* shared_prefix and shared_suffix are empty.
C15_GetOrCreateFindsExisting ==
    gmap.pc = "run" =>
        LET names == GroupNamesOf(gmap.gm)
            k == Len(gmap.calls)
        IN /\ \A i, j \in 1..Len(names) : names[i] = names[j] => i = j
           /\ Len(names) < 2 => gmap.gm.shared_prefix = <<>> /\ gmap.gm.shared_suffix = <<>>
           /\ k > 0 => names[gmap.got] = gmap.calls[k]
           /\ (k > 0 /\ \E i \in 1..Len(gmap.before.stats) :
                           gmap.before.stats[i].group = gmap.calls[k]) =>
                  gmap.gm = gmap.before

\* with two groups and a shared prefix in place, the first name was asked for
\* again: the map has two groups and the caller got the first
C15_Witness ==
    /\ gmap.pc = "run"
    /\ Len(gmap.calls) = 3
    /\ gmap.calls[3] = gmap.calls[1]
    /\ gmap.calls[2] # gmap.calls[1]
    /\ Len(gmap.gm.stats) = 2
    /\ gmap.got = 1
    /\ gmap.gm.shared_prefix # <<>>

----------------------------------------------------------------------------
(* Claims about the raw lines and the writes of process_as_tui, checked
   under Spec *)

\* The step handled a message and the loop is back at its top
Handled(type) == fed' = fed + 1 /\ last'.type = type /\ tui'.pc = "run"

\* C16: when a Print is handled with no raw lines to flush (none asked for or
\* none pending) and the stats text built is the one remembered from the last
\* write, nothing is written and the remembered stats text and the erase
\* count stay; a write happens exactly when raw lines are flushed or the
\* stats text differs.
C16_DiffedRender ==
    [][Handled("Print") =>
           LET flush == last'.include_lines /\ tui.pending_lines # <<>>
               fresh == StatsBlock(args, tui'.groups, tui'.global_statuscodes).text
           IN /\ IsSome(tui'.wrote) <=> (flush \/ fresh # tui.lastprinted_stats)
              /\ ~IsSome(tui'.wrote) =>
                     /\ tui'.lastprinted_stats = tui.lastprinted_stats
                     /\ tui'.lines_to_wipe = tui.lines_to_wipe]_vars

\* a Print that asked for the raw lines found none pending and the stats text
\* of the last write: it wrote nothing
C16_Witness ==
    /\ tui.pc = "run"
    /\ last.type = "Print" /\ last.include_lines
    /\ tui.wrote = None
    /\ tui.lastprinted_stats # <<>>

\* The step pushed a line into the pending raw lines
Pushed ==
    \/ Len(tui'.pending_lines) = Len(tui.pending_lines) + 1
    \/ tui'.lines_skipped = tui.lines_skipped + 1

\* C17: with filters configured a Line is pushed into the pending raw lines
\* only if its status code starts with one of them, a Line without a status
\* code included; with no filters every Line is pushed.
C17_OnlyMatchingLinesQueued ==
    [][Handled("Line") =>
           IF args.filters = <<>> THEN Pushed
           ELSE Pushed =>
                    /\ IsSome(last'.statuscode)
                    /\ \E i \in 1..Len(args.filters) :
                           StartsWith(Unwrap(last'.statuscode), args.filters[i])]_vars

\* C18: the pending raw lines are never more than target_height less the
\* number of groups less 2; a Line that finds them full evicts the oldest
\* and adds one to the drop counter, and the drop counter moves only when a
\* line was evicted.
C18_QueueWithinCapacity ==
    [][(fed' = fed + 1 /\ tui'.pc = "run") =>
           /\ Len(tui'.pending_lines)
                  <= args.target_height - Len(tui'.groups.stats) - GutterLines
           /\ tui'.lines_skipped > tui.lines_skipped =>
                  /\ tui.pending_lines # <<>>
                  /\ tui'.lines_skipped = tui.lines_skipped + 1
                  /\ Len(tui'.pending_lines) = Len(tui.pending_lines)
                  /\ SubSeq(tui'.pending_lines, 1, Len(tui.pending_lines) - 1)
                         = Tail(tui.pending_lines)]_vars

----------------------------------------------------------------------------
(* Claims about extract_statuscode, checked under SpecClassify *)

\* C19: extract_statuscode returns a status code exactly when the line has a
\* double quote, a later double quote and a space after the character that
\* follows the second quote, and the code is the text between that character
\* and the space; otherwise it returns "?A" without an opening quote, "?B"
\* without a closing quote and "?C" without the space.
C19_StatusCodeOrCause ==
    xs.pc = "classified" =>
        LET first_quote == Find(xs.line, 1, "\"")
            second_quote == IF first_quote = 0 THEN 0
                            ELSE Find(xs.line, first_quote + 1, "\"")
            end_space == IF second_quote = 0 THEN 0
                         ELSE Find(xs.line, second_quote + 2, " ")
        IN /\ ~xs.res.panic
           /\ xs.res.ok <=> end_space # 0
           /\ xs.res.val = IF end_space # 0
                           THEN Sub(xs.line, second_quote + 2, end_space - 1)
                           ELSE IF first_quote = 0 THEN <<"?", "A">>
                           ELSE IF second_quote = 0 THEN <<"?", "B">>
                           ELSE <<"?", "C">>

----------------------------------------------------------------------------
(* Claims about a tailer that fails, checked under SpecBus *)

\* follow returned because the file could not be opened or read
Failed(t) == tl[t].pc = "done" /\ tl[t].why \in {"open failed", "read error"}

----------------------------------------------------------------------------
(* Claims about the full bus, checked under SpecBusFair *)

\* C21: the bus never holds more messages than its capacity and loses none;
\* while it is open the consumer is running, so a full bus always has a
\* message the consumer can take; and with the tasks scheduled fairly a
\* tailer with a line to send and a ticker with a Print to send get it onto
\* the bus unless the bus is closed first.
C21_BackpressureWithoutLoss ==
    /\ [](/\ Len(bus.queue) <= bus.cap
          /\ \A p \in Producers :
                 Len(sent[p]) = Len(recvd[p]) + Len(QueuedFrom(p))
          /\ ~bus.closed => cons.st.pc = "run")
    /\ \A t \in TailerNames : \A n \in 0..(MaxAppends + MaxTicks + 2) :
           (tl[t].pc = "read" /\ tl[t].lines # <<>> /\ Len(sent[t]) = n)
               ~> (Len(sent[t]) > n \/ bus.closed)
    /\ \A n \in 0..(MaxAppends + MaxTicks + 2) :
           (tick.pc = "run" /\ tick.n < MaxTicks /\ Len(sent[Ticker]) = n)
               ~> (Len(sent[Ticker]) > n \/ bus.closed)

\* the tailer has a line to send and the ticker a Print, the bus is open and
\* full, and the consumer, which has taken a message before, is running
C21_Witness ==
    /\ ~bus.closed
    /\ Len(bus.queue) = bus.cap
    /\ tl[<<"a">>].pc = "read" /\ tl[<<"a">>].lines # <<>>
    /\ tick.pc = "run" /\ tick.n < MaxTicks
    /\ cons.st.pc = "run"
    /\ recvd[<<"a">>] # <<>>

----------------------------------------------------------------------------
(* Claims about rotation, checked under SpecReader *)

\* The step is a call of read_lines whose read returned no byte
ZeroRead ==
    /\ rstate' = "reading" /\ rfs' = rfs
    /\ rlast' \in {"reopened", "reopen failed", "slept"}

\* C22: a read of no byte that finds another file at the path, or none,
\* either reopens (the handle is the file now at the path and pending is
\* empty) or, when the path cannot be opened, leaves the reader as it was;
\* a read of no byte that finds the handle's file still at the path leaves
\* handle and pending as they were; and pending is always made of the last
\* bytes read through the current handle, so no line joins bytes of two
\* files.
C22_ReopenOnlyAfterRotation ==
    /\ [](rstate = "reading" =>
             (/\ Len(rdr.pending) <= rdr.pos
              /\ rdr.pending = Sub(rfs.data[rdr.handle],
                                   rdr.pos - Len(rdr.pending) + 1, rdr.pos)))
    /\ [][ZeroRead =>
             IF rfs.at = rdr.handle
             THEN rdr'.handle = rdr.handle /\ rdr'.pending = rdr.pending
             ELSE \/ rlast' = "reopened" /\ rdr'.handle = rfs.at /\ rdr'.pending = <<>>
                  \/ rlast' = "reopen failed" /\ rdr' = rdr]_vars

IsSuffix(a, b) == Len(a) <= Len(b) /\ a = SubSeq(b, Len(b) - Len(a) + 1, Len(b))

\* C23: a rotation loses nothing of the replacement file: once the reader
\* has reopened the path and read the replacement file to its end, every
\* newline-terminated line of that file, written before or after the
\* reopen, has been returned for sending, in order.
C23_ReplacementLinesAllSent ==
    (/\ rstate = "reading"
     /\ rreopened
     /\ rdr.handle # 1
     /\ rdr.handle = rfs.at
     /\ Unread(rdr, rfs) = 0) =>
        IsSuffix(DecodeAll(CompleteLines(rfs.data[rdr.handle])), rgot)

----------------------------------------------------------------------------
(* Claims about the point where parse_nginx_line stops, under SpecParse *)

Has(s, d) == Find(s, 1, d) # 0

\* The delimiter that ends each field
EndOf ==
    [head |-> "[", date |-> "]", method |-> " ", url |-> " ",
     protocollvl |-> "\"", statuscode |-> " "]

\* date_method as far as it was matched: the bracket, then the space, then
\* the text before the request; whole when it ends with the opening quote
DateMethodMatched(x) ==
    \/ x = <<"]">>
    \/ Len(x) >= 2 /\ x[1] = "]" /\ x[2] = " " /\ ~Has(Sub(x, 3, Len(x) - 1), "\"")

\* A separator that was matched to its end
Whole(sep, x) ==
    CASE sep = "head_date" -> x = <<"[">>
      [] sep = "date_method" ->
             Len(x) >= 3 /\ DateMethodMatched(x) /\ x[Len(x)] = "\""
      [] sep = "method_url" -> x = <<" ">>
      [] sep = "url_lvl" -> x = <<" ">>
      [] sep = "lvl_statuscode" -> x = <<"\"", " ">>

\* A separator that holds what was matched of it, whole or not
Matched(sep, x) ==
    \/ Whole(sep, x)
    \/ sep = "date_method" /\ DateMethodMatched(x)
    \/ sep = "lvl_statuscode" /\ x = <<"\"">>

\* Fields hold no delimiter of theirs, everything is kept in order, and after
\* the first separator not matched to its end nothing but tail is filled
StopsAtFirstMiss(p) ==
    /\ Unparse(p) = line
    /\ \A f \in DOMAIN EndOf : ~Has(p[f], EndOf[f])
    /\ \A i \in 1..Len(SepOrder) :
           (~IsSome(p[SepOrder[i]]) \/ ~Whole(SepOrder[i], Unwrap(p[SepOrder[i]]))) =>
               /\ p[FieldAfter[i]] = <<>>
               /\ \A j \in (i + 1)..Len(SepOrder) :
                      ~IsSome(p[SepOrder[j]]) /\ p[FieldAfter[j]] = <<>>

\* tail starts with the character that broke the expectation, or with the
\* space that ends the status code
TailFromBreak(p) ==
    p.tail # <<>> =>
        \/ p.date_method = Some(<<"]">>) /\ p.tail[1] # " "
        \/ p.lvl_statuscode = Some(<<"\"">>) /\ p.tail[1] # " "
        \/ p.lvl_statuscode = Some(<<"\"", " ">>) /\ p.tail[1] = " "

\* C24 as stated: parsing stops at the first delimiter that is not found,
\* what was scanned is kept, the rest is in tail, and the separator of the
\* stopping point is None: a separator that is present was found whole.
C24_StoppingSeparatorIsNone ==
    ppc \in {"parsed", "shown"} =>
        /\ StopsAtFirstMiss(parsed)
        /\ TailFromBreak(parsed)
        /\ \A i \in 1..Len(SepOrder) :
               IsSome(parsed[SepOrder[i]]) =>
                   Whole(SepOrder[i], Unwrap(parsed[SepOrder[i]]))

\* C24, amended: parsing stops at the first delimiter that is not found, what
\* was scanned is kept, the rest is in tail, and the separator of the stopping
\* point is None when nothing of it was matched and holds the matched part
\* otherwise: "]" without its space, "] " and the text before a quote that
\* never came, or the closing quote without its space.
C24_StoppingSeparatorHoldsMatchedPart ==
    ppc \in {"parsed", "shown"} =>
        /\ StopsAtFirstMiss(parsed)
        /\ TailFromBreak(parsed)
        /\ \A i \in 1..Len(SepOrder) :
               IsSome(parsed[SepOrder[i]]) =>
                   Matched(SepOrder[i], Unwrap(parsed[SepOrder[i]]))

\* the date was closed but no space followed: date_method holds the bracket
\* alone and the character found instead starts tail
C24_Witness ==
    /\ ppc = "parsed"
    /\ parsed.date # <<>>
    /\ parsed.date_method = Some(<<"]">>)
    /\ parsed.tail # <<>>
    /\ Len(parsed.tail) >= 2

----------------------------------------------------------------------------
(* Claims about shared_prefix and shared_suffix, checked under SpecGroups *)

\* The longest text every name starts with, and the longest every name ends
\* with
CommonPrefix(names) ==
    CHOOSE p \in {Sub(names[1], 1, k) : k \in 0..Len(names[1])} :
        /\ \A i \in 1..Len(names) : IsPrefix(p, names[i])
        /\ \A k \in (Len(p) + 1)..Len(names[1]) :
               \E i \in 1..Len(names) : ~IsPrefix(Sub(names[1], 1, k), names[i])
CommonSuffix(names) ==
    CHOOSE x \in {Sub(names[1], k, Len(names[1])) : k \in 1..(Len(names[1]) + 1)} :
        /\ \A i \in 1..Len(names) : IsSuffix(x, names[i])
        /\ \A k \in 1..(Len(names[1]) - Len(x)) :
               \E i \in 1..Len(names) :
                   ~IsSuffix(Sub(names[1], k, Len(names[1])), names[i])

\* C25: with two or more groups, shared_prefix starts every name and
\* shared_suffix ends every name; shared_prefix is the longest common prefix
\* or a shorter start of it; shared_suffix is the longest common suffix as a
\* whole, or empty together with shared_prefix.
C25_SharedPartsAreCommon ==
    (gmap.pc = "run" /\ Len(gmap.gm.stats) >= 2) =>
        LET names == GroupNamesOf(gmap.gm)
        IN /\ \A i \in 1..Len(names) :
                  /\ IsPrefix(gmap.gm.shared_prefix, names[i])
                  /\ IsSuffix(gmap.gm.shared_suffix, names[i])
           /\ IsPrefix(gmap.gm.shared_prefix, CommonPrefix(names))
           /\ \/ gmap.gm.shared_suffix = CommonSuffix(names)
              \/ gmap.gm.shared_suffix = <<>> /\ gmap.gm.shared_prefix = <<>>

\* three groups whose common prefix was shortened while their common suffix
\* was kept whole
C25_Witness ==
    /\ gmap.pc = "run"
    /\ Len(gmap.gm.stats) = 3
    /\ gmap.gm.shared_prefix # <<>>
    /\ gmap.gm.shared_prefix # CommonPrefix(GroupNamesOf(gmap.gm))
    /\ gmap.gm.shared_suffix # <<>>
    /\ gmap.gm.shared_suffix = CommonSuffix(GroupNamesOf(gmap.gm))

----------------------------------------------------------------------------
(* Claims about what a write erases, checked under Spec *)

\* The step handled a Print that wrote to the terminal
Wrote == Handled("Print") /\ IsSome(tui'.wrote)

\* C26: on every write the cursor goes up by the number of newlines of the
\* stats text written before (0 before the first write), so that the old
\* stats block is erased and nothing above it; that number is what the loop
\* remembers.
C26_WriteErasesOnlyStatsBlock ==
    [][Wrote =>
           /\ tui.lines_to_wipe = NewlinesOf(tui.lastprinted_stats)
           /\ Unwrap(tui'.wrote).up = tui.lines_to_wipe
           /\ IsPrefix(screen, screen')]_vars

\* C27: a write clears the footer above the stats block only when the Print
\* asked for the raw lines and some were pending.
C27_FooterWipedOnlyWithLines ==
    [][(Wrote /\ screen # <<>> /\ screen[Len(screen)] = "footer"
              /\ ~IsPrefix(screen, screen')) =>
           (last'.include_lines /\ tui.pending_lines # <<>>)]_vars

----------------------------------------------------------------------------
(* Claims about the flush of the raw lines, checked under Spec *)

\* The step handled a Print that flushed the pending raw lines
FlushesLines == Handled("Print") /\ last'.include_lines /\ tui.pending_lines # <<>>

\* C28: at every flush of the raw lines, the lines written and the drop
\* counter add up to the lines queued since the flush before; the footer
\* shows the whole percents the written lines are of that sum; the lines
\* written are the most recent of the lines queued, in the order they came;
\* afterwards no line is pending and the drop counter is 0.
C28_FlushAccountsForEveryLine ==
    [][FlushesLines =>
           LET kept == Len(tui.pending_lines)
               dropped == tui.lines_skipped
               w == Unwrap(tui'.wrote)
           IN /\ kept + dropped = Len(passed)
              /\ w.samplerate = Some((100 * kept) \div (kept + dropped))
              /\ Len(w.lines) = kept
              /\ [i \in 1..kept |-> tui.pending_lines[i].text]
                     = SubSeq(passed, Len(passed) - kept + 1, Len(passed))
              /\ w.lines = [i \in 1..kept |-> RenderLine(tui, tui.pending_lines[i]).text]
              /\ tui'.pending_lines = <<>>
              /\ tui'.lines_skipped = 0]_vars

----------------------------------------------------------------------------
(* Claims about the lists of status codes, checked under Spec *)

StrictlyAscending(v) == \A i \in 1..(Len(v) - 1) : StrLess(v[i], v[i + 1])
CodesOf(gs) == [i \in 1..Len(gs.stats) |-> gs.stats[i].statuscode]
Elements(v) == {v[i] : i \in 1..Len(v)}

\* C29: the global list of status codes is strictly ascending and holds the
\* codes of all groups and no other; the StatusStats of each group are
\* strictly ascending by code.
C29_CodeListsSorted ==
    tui.pc = "run" =>
        /\ StrictlyAscending(tui.global_statuscodes)
        /\ Elements(tui.global_statuscodes)
               = UNION {Elements(CodesOf(tui.groups.stats[g])) :
                           g \in 1..Len(tui.groups.stats)}
        /\ \A g \in 1..Len(tui.groups.stats) :
               StrictlyAscending(CodesOf(tui.groups.stats[g]))

\* a group got its second code, the lesser of the two, from the line handled
\* last, and another group has one code only
C29_Witness ==
    /\ tui.pc = "run"
    /\ last.type = "Line" /\ IsSome(last.leftrightgroup)
    /\ Len(tui.global_statuscodes) = 2
    /\ tui.global_statuscodes[1] = Unwrap(last.leftrightgroup)
    /\ \E g, h \in 1..Len(tui.groups.stats) :
           /\ tui.groups.stats[g].group = last.updowngroup
           /\ Len(tui.groups.stats[g].stats) = 2
           /\ Len(tui.groups.stats[h].stats) = 1

----------------------------------------------------------------------------
(* Claims about the rows of the stats block, checked under Spec *)

\* A cell of white space as wide as the cell of a rate, and the cell that
\* shows the code alone
WhiteCell(code) == Spaces(SpeedWidth + 2 + StrLen(code) + 2)
CodeCell(code) == Spaces(SpeedWidth + 2) \o code \o Spaces(2)

\* The cell of a group for a code: its rate and the code when the group has
\* a StatusStats for the code, the placeholder when it has none
CellFor(Placeholder(_), gs, code) ==
    IF code \in Elements(CodesOf(gs))
    THEN RateCell(gs.stats[CHOOSE k \in 1..Len(gs.stats) : gs.stats[k].statuscode = code])
    ELSE Placeholder(code)

\* The block with one row for each group and in it one cell for each global
\* code, in the order of the global list, less the white space at its end
BlockOfCells(Placeholder(_), cfg, gm, codes) ==
    LET RowFor(g) ==
            <<"-", "-", " ">>
            \o PaddedTag(cfg.debug, gm.stats[g].group, MaxTagName(gm),
                         StrLen(gm.shared_prefix), StrLen(gm.shared_suffix),
                         MaxTagName(gm) - StrLen(gm.shared_prefix)
                             - StrLen(gm.shared_suffix)).tag
            \o <<" ">>
            \o Flatten([i \in 1..Len(codes) |->
                            CellFor(Placeholder, gm.stats[g], codes[i])])
            \o <<NL>>
    IN TrimEnd(Flatten([g \in 1..Len(gm.stats) |-> RowFor(g)]))

\* C30 as stated: the stats block built on a Print has in each row one cell
\* for each global code, in ascending order: the rate and the code where the
\* group has the code, white space where it has not.
C30_BlankWhereGroupLacksCode ==
    [][Handled("Print") =>
           StatsBlock(args, tui'.groups, tui'.global_statuscodes).text
               = BlockOfCells(WhiteCell, args, tui'.groups,
                              tui'.global_statuscodes)]_vars

\* C30: the stats block built on a Print has in each row one cell for each
\* global code, in ascending order: the rate and the code where the group
\* has the code; where it has not, white space of the same width in a
\* release build and the code alone, with no rate and no brackets, in a
\* debug build.
C30_OneCellForEachCode ==
    [][Handled("Print") =>
           StatsBlock(args, tui'.groups, tui'.global_statuscodes).text
               = IF args.debug
                 THEN BlockOfCells(CodeCell, args, tui'.groups,
                                   tui'.global_statuscodes)
                 ELSE BlockOfCells(WhiteCell, args, tui'.groups,
                                   tui'.global_statuscodes)]_vars

\* a debug build wrote a block of two rows and two codes; the first group
\* lacks the second code and the second group lacks the first
C30_Witness ==
    /\ tui.pc = "run"
    /\ args.debug
    /\ last.type = "Print" /\ IsSome(tui.wrote)
    /\ Len(tui.global_statuscodes) = 2
    /\ Len(tui.groups.stats) = 2
    /\ CodesOf(tui.groups.stats[1]) = <<tui.global_statuscodes[1]>>
    /\ CodesOf(tui.groups.stats[2]) = <<tui.global_statuscodes[2]>>

----------------------------------------------------------------------------
(* Claims about the tick of the StatusStats, checked under Spec *)

AllStatusStats(c) ==
    UNION {{c.groups.stats[g].stats[i] : i \in 1..Len(c.groups.stats[g].stats)} :
              g \in 1..Len(c.groups.stats)}

\* C31: a Print, written or not, ticks every StatusStats once: with no
\* time elapsed since its last tick the StatusStats stays as it is; else
\* one sample of the elapsed time and the pending count joins its ring, the
\* pending count is 0 and the timer starts at the present.  No sample of a
\* ring has a duration of 0, so the rate of a ring with samples is defined.
C31_PrintTicksEveryStatusStats ==
    /\ [](tui.pc = "run" =>
              \A st \in AllStatusStats(tui) :
                  /\ \A k \in 1..Len(st.ring) : st.ring[k].duration > 0
                  /\ st.ring # <<>> => RingSum(st.ring, "duration") > 0)
    /\ [][Handled("Print") =>
              /\ Len(tui'.groups.stats) = Len(tui.groups.stats)
              /\ \A g \in 1..Len(tui.groups.stats) :
                     /\ Len(tui'.groups.stats[g].stats) = Len(tui.groups.stats[g].stats)
                     /\ \A i \in 1..Len(tui.groups.stats[g].stats) :
                            LET st == tui.groups.stats[g].stats[i]
                                ticked == tui'.groups.stats[g].stats[i]
                            IN IF clock = st.start THEN ticked = st
                               ELSE /\ ticked.statuscode = st.statuscode
                                    /\ ticked.pending = 0
                                    /\ ticked.start = clock
                                    /\ Len(ticked.ring) = Len(st.ring) + 1
                                    /\ SubSeq(ticked.ring, 1, Len(st.ring)) = st.ring
                                    /\ ticked.ring[Len(ticked.ring)]
                                           = [duration |-> clock - st.start,
                                              msgs |-> st.pending]]_vars

\* a Print ticked a StatusStats that had waited a millisecond and left alone
\* one that was made in the present millisecond
C31_Witness ==
    /\ tui.pc = "run"
    /\ last.type = "Print"
    /\ \E st \in AllStatusStats(tui) : st.ring # <<>>
    /\ \E st \in AllStatusStats(tui) : st.ring = <<>> /\ st.start = clock

----------------------------------------------------------------------------
(* Claims about the width the raw lines are cut to, checked under Spec *)

\* A line as it is written when cut to the width: the whole line for width
\* 0 and for a line no longer than the width
ShownCutTo(pl, width) ==
    LET Coloured(text) ==
            IF IsSome(pl.statuscode) THEN text ELSE <<ORANGE>> \o text \o <<RESET>>
    IN Coloured(fmt(parse_nginx_line(IF width # 0 /\ StrLen(pl.text) > width
                                     THEN SliceTo(pl.text, width).val
                                     ELSE pl.text)))

\* WinCh sets the width and leaves the rest of the state alone
WinChSetsWidthOnly ==
    Handled("WinCh") =>
        /\ tui'.cut_width = last'.width
        /\ tui'.pending_lines = tui.pending_lines
        /\ tui'.lines_skipped = tui.lines_skipped
        /\ tui'.groups = tui.groups
        /\ tui'.global_statuscodes = tui.global_statuscodes
        /\ tui'.lastprinted_stats = tui.lastprinted_stats
        /\ tui'.lines_to_wipe = tui.lines_to_wipe

\* C32 as stated: a raw line is written cut to the width that was in force
\* when its Line message was handled; WinCh changes the width only.
C32_CutToWidthAtLine ==
    [][/\ WinChSetsWidthOnly
       /\ FlushesLines =>
              Unwrap(tui'.wrote).lines
                  = [i \in 1..Len(tui.pending_lines) |->
                        ShownCutTo(tui.pending_lines[i], cutat[i])]]_vars

\* C32: a raw line is queued whole and written cut to the width in force
\* when the Print that flushes it is handled; WinCh changes the width only.
C32_CutToWidthAtPrint ==
    [][/\ WinChSetsWidthOnly
       /\ Handled("Line") => \/ tui'.pending_lines = tui.pending_lines
                             \/ tui'.pending_lines[Len(tui'.pending_lines)].text
                                    = last'.text
       /\ FlushesLines =>
              Unwrap(tui'.wrote).lines
                  = [i \in 1..Len(tui.pending_lines) |->
                        ShownCutTo(tui.pending_lines[i], tui.cut_width)]]_vars

\* a line of 7 bytes came while lines were not cut, a WinCh brought the width
\* 5, and the Print wrote the line cut
C32_Witness ==
    /\ tui.pc = "run"
    /\ last.type = "Print" /\ IsSome(tui.wrote)
    /\ args.width = 0 /\ tui.cut_width = 5
    /\ Len(Unwrap(tui.wrote).lines) = 1
    /\ Len(StripColors(Unwrap(tui.wrote).lines[1])) = 5

----------------------------------------------------------------------------
(* Claims about what a Print does to the pending raw lines, checked under
   Spec *)

\* C33: a Print that does not ask for the raw lines, and one that asks for
\* them while none is pending, leave the pending raw lines and the drop
\* counter as they are and write no raw line; raw lines are written, and the
\* pending ones cleared, by no message but a Print that asks for them.
C33_OnlyPrintWithLinesFlushes ==
    [][/\ (Handled("Print") /\ (~last'.include_lines \/ tui.pending_lines = <<>>)) =>
              /\ tui'.pending_lines = tui.pending_lines
              /\ tui'.lines_skipped = tui.lines_skipped
              /\ IsSome(tui'.wrote) =>
                     /\ Unwrap(tui'.wrote).lines = <<>>
                     /\ Unwrap(tui'.wrote).samplerate = None
       /\ (/\ fed' = fed + 1 /\ tui'.pc = "run"
           /\ \/ tui.pending_lines # <<>> /\ tui'.pending_lines = <<>>
              \/ tui.lines_skipped # 0 /\ tui'.lines_skipped = 0
              \/ IsSome(tui'.wrote) /\ Unwrap(tui'.wrote).lines # <<>>) =>
              (last'.type = "Print" /\ last'.include_lines)]_vars

\* a Print that did not ask for the raw lines wrote the stats and left a
\* pending line and the drop counter alone
C33_Witness ==
    /\ tui.pc = "run"
    /\ last.type = "Print" /\ ~last.include_lines
    /\ IsSome(tui.wrote)
    /\ tui.pending_lines # <<>>
    /\ tui.lines_skipped > 0

----------------------------------------------------------------------------
(* Claims about the name cells of the stats block, checked under SpecGroups:
   the cells built for the groups of a GroupMap *)

\* lines 479-496 for the g-th group: padded_group_length and the name cell
NameCell(debug, gm, g) ==
    LET failed == [ok |-> FALSE, tag |-> <<>>]
        Padded(padded_group_length) ==
            IF ~padded_group_length.ok THEN failed
            ELSE PaddedTag(debug, gm.stats[g].group, MaxTagName(gm),
                           StrLen(gm.shared_prefix), StrLen(gm.shared_suffix),
                           padded_group_length.val)
        LessPrefix(d1) ==
            IF ~d1.ok THEN failed
            ELSE Padded(UsizeSub(debug, d1.val, StrLen(gm.shared_suffix)))
    IN LessPrefix(UsizeSub(debug, MaxTagName(gm), StrLen(gm.shared_prefix)))

\* C34: for the groups of every map that get_or_create has built, each
\* name cell is built without failure and is max(8, longest name) less the
\* shared prefix and suffix wide; it holds the name without the shared
\* parts when the name is longer than the two, and "@" when it is not,
\* padded with spaces.
C34_NameCellsAligned ==
    gmap.pc = "run" =>
        \A g \in 1..Len(gmap.gm.stats) :
            LET name == gmap.gm.stats[g].group
                shared == StrLen(gmap.gm.shared_prefix) + StrLen(gmap.gm.shared_suffix)
                width == MaxTagName(gmap.gm) - shared
                Aligned(cell) ==
                    /\ cell.ok
                    /\ Len(cell.tag) = width
                    /\ IF StrLen(name) > shared
                       THEN cell.tag
                                = Sub(name, Len(gmap.gm.shared_prefix) + 1,
                                      Len(name) - Len(gmap.gm.shared_suffix))
                                  \o Spaces(width - (Len(name) - shared))
                       ELSE cell.tag = <<"@">> \o Spaces(width - 1)
            IN Aligned(NameCell(gmap.debug, gmap.gm, g))

----------------------------------------------------------------------------
(* Claims about the classification of a line by the tailer, checked under
   SpecClassify *)

Sentinels == {<<"?", x>> : x \in {"A", "B", "C", "D", "E"}}

\* C35: for every line, with characters of several bytes anywhere in it,
\* extract_statuscode returns: a status code or a sentinel; the tailer goes
\* on to build the Line message.
C35_ClassifyingNeverFails ==
    xs.pc = "classified" =>
        /\ ~xs.res.panic
        /\ xs.res.ok \/ xs.res.val \in Sentinels

----------------------------------------------------------------------------
(* Claims about the rendering of the raw lines, checked under Spec *)

\* C36: a Print that asks for the raw lines while some are pending renders
\* each of them, whatever the width and the characters of the line: cutting
\* the line to the width does not fail and the loop goes on.
C36_RenderingNeverFails ==
    [][(/\ fed' = fed + 1
        /\ last'.type = "Print" /\ last'.include_lines
        /\ tui.pending_lines # <<>>) =>
           /\ \A i \in 1..Len(tui.pending_lines) :
                  RenderLine(tui, tui.pending_lines[i]).ok
           /\ tui'.pc = "run"]_vars

----------------------------------------------------------------------------
(* Claims about the capacity of the raw lines, checked under Spec *)

\* C37: after every message that may add a group, the loop computes the
\* capacity target_height less the number of groups less 2 without failure,
\* and the capacity is that number and not below 0.
C37_CapacityNeverBelowZero ==
    [][(fed' = fed + 1 /\ last'.type \in {"RegisterGroup", "Line"}) =>
           /\ tui'.pc = "run"
           /\ tui'.number_of_lines
                  = args.target_height - Len(tui'.groups.stats) - GutterLines
           /\ tui'.number_of_lines >= 0]_vars

----------------------------------------------------------------------------
(* Claims about the order of the registrations, checked under SpecGroups *)

\* get_or_create for one name after the other, up to the first call that
\* panics
RECURSIVE RegisterAll(_, _, _)
RegisterAll(debug, gm, names) ==
    LET Then(res) ==
            IF ~res.ok THEN [ok |-> FALSE, gm |-> res.gm]
            ELSE RegisterAll(debug, res.gm, Tail(names))
    IN IF names = <<>> THEN [ok |-> TRUE, gm |-> gm]
       ELSE Then(GroupMapGetOrCreate(debug, gm, Head(names)))

\* The orders the names of a sequence can come in
Orders(names) ==
    {p \in [1..Len(names) -> Elements(names)] :
        \A i, j \in 1..Len(names) : i # j => p[i] # p[j]}

\* C38: the names registered so far, registered in any other order, give
\* the same shared_prefix and shared_suffix, and all registrations complete
\* in one order if they do in another.
C38_OrderOfRegistrationIrrelevant ==
    (gmap.pc \in {"run", "panicked"} /\ Cardinality(Elements(gmap.calls)) = Len(gmap.calls)) =>
        \A p \in Orders(gmap.calls) :
            LET Same(other) ==
                    /\ other.ok <=> gmap.pc = "run"
                    /\ (other.ok /\ gmap.pc = "run") =>
                           /\ other.gm.shared_prefix = gmap.gm.shared_prefix
                           /\ other.gm.shared_suffix = gmap.gm.shared_suffix
            IN Same(RegisterAll(gmap.debug, GroupMapNew, p))

----------------------------------------------------------------------------
(* Claims about a reopen that fails, checked under SpecReader *)

\* C39: a read of no byte that finds the handle no longer at the path and
\* cannot open the path returns no line and leaves handle, position and
\* pending bytes as they were, and the reader goes on; the next read of no
\* byte tries again, and when it opens the path the handle is the file at
\* the path and pending is empty; the lines completed by the bytes read
\* since the last reopen are the last lines returned.
C39_FailedReopenChangesNothing ==
    /\ []((rstate = "reading" /\ rreopened) =>
              IsSuffix(DecodeAll(CompleteLines(StreamRead)), rgot))
    /\ [][(ZeroRead /\ rlast' = "reopen failed") =>
              /\ ~SamePath(rdr, rfs)
              /\ rdr' = rdr
              /\ rgot' = rgot]_vars
    /\ [][(ZeroRead /\ rlast = "reopen failed") =>
              /\ rlast' \in {"reopened", "reopen failed"}
              /\ rlast' = "reopened" =>
                     /\ rfs.at # 0
                     /\ rdr'.handle = rfs.at
                     /\ rdr'.pending = <<>>
                     /\ rgot' = rgot]_vars

\* the file was moved away while the reader held the start of a line; the
\* path could not be opened and the reader kept handle and pending bytes
C39_Witness ==
    /\ rstate = "reading"
    /\ rlast = "reopen failed"
    /\ rdr.canonical
    /\ rfs.at = 0
    /\ rdr.handle = 1
    /\ rdr.pending # <<>>

====
